---- MODULE Spec2Model ----
(***************************************************************************)
(* Model of the CNMC resolution classifier                                 *)
(* (src/src/analysis/classifier.py, class ResolutionClassifier).           *)
(*                                                                         *)
(* A document is a sequence of tokens.  A token is a word of the document  *)
(* with its length in characters, [w |-> word, n |-> length]; the token    *)
(* "NL" is a line break.  Two neighbouring words are separated by exactly  *)
(* one blank, a line break has no blank on either side.  The token "x" is  *)
(* a run of n letters x (neutral filler text).  Every regular expression   *)
(* of the classifier is translated to an operator over token sequences;    *)
(* the facts about the inside of a word that an expression depends on (a   *)
(* verb stem that ends inside a word, a word of four or more ASCII         *)
(* letters) are the lexical tables below.  Category patterns that need a   *)
(* word outside Vocabulary cannot match any modelled text and are left     *)
(* out; the ones kept carry the source line of the pattern in their name.  *)
(***************************************************************************)
EXTENDS Integers, Sequences, FiniteSets, TLC

VARIABLES pc,            \* position inside classify / _classify_fallback
          doc,           \* the input: the blocks the document is made of
          text,          \* local variable text of classify
          section,       \* section_result of classify
          first_point,   \* first_point of classify
          result,        \* the ClassificationResult returned, or NoResult
          raw,           \* argument of a direct call of _normalize_text
          normalized,    \* what that call returned
          default_rules, \* the module-level list DEFAULT_RULES of rules.py
          caller_rules,  \* a rule list owned by the caller of RuleBasedClassifier
          self_rules,    \* which of the two lists self.rules refers to, or NoInstance
          rule_text,     \* the text given to the rule classifier
          rule_call,     \* the last call on the rule classifier and what it returned
          pipeline,      \* the script that runs: run_analysis or run_analysis_v3
          use_rules,     \* argument use_rules of run_analysis
          expedientes,   \* the records loaded from the input file
          provider,      \* what extract_text_from_url returns for each record's URL
          ppc,           \* position inside the script
          idx,           \* the record the loop is at (i of enumerate)
          fetched,       \* local variable text of the loop body
          analysis_text, \* local variable analysis_text of run_analysis
          stats,         \* stats of run_analysis
          results,       \* the Counter results of run_analysis_v3
          reclassified,  \* reclassified of run_analysis_v3
          instance,      \* the attributes of one shared ResolutionClassifier
          calls,         \* the calls of classify in progress on it, one per thread
          now,           \* what time.time() returns
          last_request_time, \* attribute last_request_time of one CurlClient
          request,       \* the last request attempt made on the client
          previous_end,  \* when the attempt before it ended: <<>> or <<time>>
          site,          \* the result pages of the search, page 0 first
          year_from,     \* arguments of scrape_expedientes
          year_to,
          max_pages,
          reverse,
          spc,           \* position inside scrape_expedientes
          pages,         \* what is left of the range the loop runs over
          page,          \* loop variable page
          stop_early,    \* local variable stop_early
          pages_processed, \* local variable pages_processed
          yielded,       \* the records the generator has yielded
          parsed         \* the pages fetched and parsed so far

\* The variables of classify, and those of the other operations.
cvars == <<pc, doc, text, section, first_point, result>>
nvars == <<raw, normalized>>
rvars == <<default_rules, caller_rules, self_rules, rule_text, rule_call>>
pvars == <<pipeline, use_rules, expedientes, provider, ppc, idx, fetched, analysis_text,
           stats, results, reclassified>>
tvars == <<instance, calls>>
hvars == <<now, last_request_time, request, previous_end>>
svars == <<site, year_from, year_to, max_pages, reverse, spc, pages, page, stop_early,
           pages_processed, yielded, parsed>>
xvars == <<hvars, svars>>
outside == <<nvars, rvars, pvars, tvars, xvars>>
vars == <<cvars, outside>>

\* Bounds of the model.
MaxBlocks == 3
ShortFill == 60
LongFill == 3100

----------------------------------------------------------------------------
\* Words and their lengths in characters.

Vocabulary ==
  { "NL", "RESUELVE", "PRIMERO.", "SEGUNDO.", "Notifíquese", "FALLAMOS:", "21", "x",
    "estimar", "desestimar", "desestima", "desestiman", "estimamos", "desestimamos",
    "archivar",
    "confirmar", "anular", "reconocer",
    "recurso", "conflicto", "conflictos", "actuaciones", "denegación", "resolución",
    "derecho", "acceso", "red", "impugnada", "reclamante", "toma", "nota",
    "el", "la", "los", "las", "de", "a", "y", "se" }

WLen(w) ==
  CASE w \in {"NL", "a", "y"} -> 1
    [] w \in {"el", "la", "de", "se", "21"} -> 2
    [] w \in {"los", "las", "red"} -> 3
    [] w \in {"toma", "nota"} -> 4
    [] w \in {"anular", "acceso"} -> 6
    [] w \in {"estimar", "recurso", "derecho"} -> 7
    [] w \in {"RESUELVE", "PRIMERO.", "SEGUNDO.", "archivar"} -> 8
    [] w \in {"FALLAMOS:", "desestima", "estimamos", "confirmar", "reconocer",
              "conflicto", "impugnada"} -> 9
    [] w \in {"desestimar", "desestiman", "conflictos", "denegación", "resolución",
              "reclamante"} -> 10
    [] w \in {"Notifíquese", "actuaciones"} -> 11
    [] w = "desestimamos" -> 12
    \* the words of RuleWords
    [] w = "no" -> 2
    [] w = "del" -> 3
    [] w = "estima" -> 6
    [] w = "archivo" -> 7
    [] w = "expediente" -> 10
    [] w = "reclamación" -> 11
    [] w = "parcialmente" -> 12

\* Words that occur in texts of the rule classifier (rules.py) only, never in a
\* text given to classify.
RuleWords == {"no", "del", "estima", "archivo", "expediente", "reclamación", "parcialmente"}

T(w) == [w |-> w, n |-> WLen(w)]
X(k) == [w |-> "x", n |-> k]
NL == T("NL")

Words(ws) == [i \in 1..Len(ws) |-> T(ws[i])]

----------------------------------------------------------------------------
\* Character arithmetic over token sequences.

IsNL(t) == t.w = "NL"

\* Number of blanks between token i-1 and token i of s.
Sep(s, i) == IF i = 1 \/ IsNL(s[i-1]) \/ IsNL(s[i]) THEN 0 ELSE 1

\* Offset of the first character of token i of s (0-based); Start(s, Len(s)+1)
\* is the length of s in characters.
RECURSIVE Start(_, _)
Start(s, i) ==
  IF i = 1 THEN 0
  ELSE IF i = Len(s) + 1 THEN Start(s, i-1) + s[i-1].n
  ELSE Start(s, i-1) + s[i-1].n + Sep(s, i)

Chars(s) == IF s = <<>> THEN 0 ELSE Start(s, Len(s) + 1)

\* Offset just past the last character of token i.
Stop(s, i) == Start(s, i) + s[i].n

\* str.strip(): leading and trailing line breaks removed.
RECURSIVE SkipNL(_, _)
SkipNL(s, i) == IF i <= Len(s) /\ IsNL(s[i]) THEN SkipNL(s, i + 1) ELSE i
RECURSIVE BackNL(_, _)
BackNL(s, i) == IF i >= 1 /\ IsNL(s[i]) THEN BackNL(s, i - 1) ELSE i
Strip(s) == SubSeq(s, SkipNL(s, 1), BackNL(s, Len(s)))

\* A token cut by a slice: filler stays filler, any other word becomes an
\* unrecognisable fragment.
Frag(t, k) == [w |-> IF t.w = "x" THEN "x" ELSE "#", n |-> k]

\* s[:k], the first k characters of s.
\* The last token of s, at or before token i, that starts before offset k.
RECURSIVE CutIndex(_, _, _)
CutIndex(s, k, i) == IF i = 1 \/ Start(s, i) < k THEN i ELSE CutIndex(s, k, i - 1)

Prefix(s, k) ==
  IF k <= 0 \/ s = <<>> THEN <<>>
  ELSE IF Chars(s) <= k THEN s
  ELSE LET m == CutIndex(s, k, Len(s))
       IN IF Stop(s, m) <= k THEN SubSeq(s, 1, m)
          ELSE Append(SubSeq(s, 1, m - 1), Frag(s[m], k - Start(s, m)))

\* s[-k:], the last k characters of s.
RECURSIVE Suffix(_, _)
Suffix(s, k) ==
  IF k <= 0 \/ s = <<>> THEN <<>>
  ELSE IF Chars(s) <= k THEN s
  ELSE LET rest == Tail(s)
           r == Chars(rest) + (IF Len(s) > 1 THEN Sep(s, 2) ELSE 0)
       IN IF r >= k THEN Suffix(rest, k)
          ELSE <<Frag(s[1], k - r)>> \o rest

----------------------------------------------------------------------------
\* The documents of the model: up to MaxBlocks blocks, one block per line
\* (a block that starts with the section title takes two lines).

BlockNames ==
  { "RES_EST", "RES_DES", "RES_NOTA", "RES_BOTH", "RES_FLEX", "P2_DES", "NOTA",
    "SENT", "CONF", "ANUL", "DES_SG", "DES_PL", "FALLO", "FALLO_DES", "FILL", "LONG",
    "PAGE" }

BlockText(b) ==
  CASE b = "RES_EST" -> Words(<<"RESUELVE", "NL", "PRIMERO.", "estimar", "el", "recurso">>)
    [] b = "RES_DES" -> Words(<<"RESUELVE", "NL", "PRIMERO.", "desestimar", "el", "recurso">>)
    [] b = "RES_NOTA" -> Words(<<"RESUELVE", "NL", "PRIMERO.", "se", "toma", "nota">>)
    [] b = "RES_BOTH" -> Words(<<"RESUELVE", "NL", "PRIMERO.", "desestimar", "el", "recurso",
                                 "y", "archivar", "las", "actuaciones">>)
    [] b = "RES_FLEX" -> Words(<<"RESUELVE", "NL", "desestimar", "el", "recurso">>)
    [] b = "P2_DES" -> Words(<<"SEGUNDO.", "desestimar", "el", "recurso">>)
    [] b = "NOTA" -> Words(<<"se", "toma", "nota">>)
    [] b = "SENT" -> Words(<<"Notifíquese">>)
    [] b = "CONF" -> Words(<<"confirmar", "la", "denegación", "de", "acceso", "a", "la",
                             "red">>)
    [] b = "ANUL" -> Words(<<"anular", "la", "resolución", "impugnada", "y", "reconocer",
                             "el", "derecho", "de", "la", "reclamante">>)
    [] b = "DES_SG" -> Words(<<"se", "desestima", "el", "conflicto">>)
    [] b = "DES_PL" -> Words(<<"se", "desestiman", "los", "conflictos">>)
    [] b = "FALLO" -> Words(<<"FALLAMOS:", "estimamos", "el", "recurso">>)
    [] b = "FALLO_DES" -> Words(<<"FALLAMOS:", "desestimamos", "el", "recurso">>)
    [] b = "FILL" -> <<X(ShortFill)>>
    [] b = "LONG" -> <<X(LongFill)>>
    [] b = "PAGE" -> Words(<<"21">>)
    [] b = "R_DES_TOTAL" -> Words(<<"se", "desestima", "la", "reclamación">>)
    [] b = "R_EST_TOTAL" -> Words(<<"se", "estima", "la", "reclamación">>)
    [] b = "R_NO_EST" -> Words(<<"no", "se", "estima", "el", "recurso">>)
    [] b = "R_PARCIAL" -> Words(<<"estimar", "parcialmente", "el", "recurso">>)
    [] b = "R_FALLO_DES" -> Words(<<"RESUELVE", "desestimar", "el", "recurso">>)
    [] b = "R_FALLO_EST" -> Words(<<"RESUELVE", "estimar", "el", "recurso">>)
    [] b = "R_ARCH" -> Words(<<"archivar", "las", "actuaciones">>)
    [] b = "R_EXP" -> Words(<<"archivo", "del", "expediente">>)
    [] b = "R_TITLE" -> Words(<<"RESUELVE">>)
    [] b = "R_DES" -> Words(<<"desestimar", "el", "recurso">>)

Docs == UNION { [1..k -> BlockNames] : k \in 0..MaxBlocks }

\* The text of a document: its blocks, one per line.
RECURSIVE Render(_)
Render(d) ==
  IF d = <<>> THEN <<>>
  ELSE IF Len(d) = 1 THEN BlockText(d[1])
  ELSE BlockText(d[1]) \o <<NL>> \o Render(Tail(d))

----------------------------------------------------------------------------
\* _normalize_text

IsDigits(t) == t.w = "21"

\* re.sub(r'^\d+\s*\n', '', text): a leading page number and the white space
\* after it, up to and including the last line break of that white space.
RECURSIVE DropNL(_)
DropNL(s) == IF s # <<>> /\ IsNL(s[1]) THEN DropNL(Tail(s)) ELSE s

StripPageLine(s) ==
  IF Len(s) >= 2 /\ IsDigits(s[1]) /\ IsNL(s[2]) THEN DropNL(Tail(s)) ELSE s

\* re.sub(r'^\d+\s+(?=ÚNICO|PRIMERO|Único|Primero)', '', text)
StripPageBeforeOrdinal(s) ==
  IF Len(s) >= 2 /\ IsDigits(s[1]) /\ DropNL(Tail(s)) # <<>>
     /\ DropNL(Tail(s))[1].w = "PRIMERO."
  THEN DropNL(Tail(s)) ELSE s

\* re.sub(r'\n{3,}', '\n\n', text)
RECURSIVE CollapseNL(_)
CollapseNL(s) ==
  IF Len(s) < 3 THEN s
  ELSE IF IsNL(s[1]) /\ IsNL(s[2]) /\ IsNL(s[3]) THEN CollapseNL(Tail(s))
  ELSE <<s[1]>> \o CollapseNL(Tail(s))

\* The typographic dashes, quotes and the ellipsis that the replace() calls
\* rewrite occur in no word of Vocabulary, and words are single-spaced, so
\* these steps leave a token sequence as it is.
NormalizeText(s) == CollapseNL(StripPageBeforeOrdinal(StripPageLine(s)))

----------------------------------------------------------------------------
\* _normalize_text, character by character.  A string is a sequence of
\* characters, a character outside Latin-1 being written by its code point; the
\* piece "PRIMERO" stands for any of the ordinal words of the look-ahead of the
\* second page-number expression.

Dashes == {"U+2013", "U+2014", "U+2212"}
DoubleQuotes == {"U+201C", "U+201D", "«", "»"}
SingleQuotes == {"U+2018", "U+2019"}
Ellipsis == "U+2026"
\* [^\S\n] and \s
Horizontal == {" ", "\t"}
Space == Horizontal \cup {"\n"}
\* \d
Digit == {"7"}
OrdinalWords == {"PRIMERO"}

MaxChars == 4
Alphabet ==
  {"a", "7", "-", "\n", "PRIMERO", Ellipsis} \cup Dashes \cup DoubleQuotes
    \cup SingleQuotes \cup Horizontal
Strings == UNION { [1..k -> Alphabet] : k \in 0..MaxChars }

\* The chains of str.replace for dashes and quotes.
\* Faulty variant: the minus sign is left as it is.
ReplaceCharNoMinus(c) ==
  IF c \in Dashes \ {"U+2212"} THEN "-"
  ELSE IF c \in DoubleQuotes THEN "\""
  ELSE IF c \in SingleQuotes THEN "'"
  ELSE c
ReplaceChar(c) ==
  IF c \in Dashes THEN "-"
  ELSE IF c \in DoubleQuotes THEN "\""
  ELSE IF c \in SingleQuotes THEN "'"
  ELSE c

ReplaceTypographic(s) == [i \in 1..Len(s) |-> ReplaceChar(s[i])]

\* The first position at or after i whose character is not in cs.
RECURSIVE SkipIn(_, _, _)
SkipIn(s, i, cs) == IF i <= Len(s) /\ s[i] \in cs THEN SkipIn(s, i + 1, cs) ELSE i

\* The last line break at or before position i and not before position lo, or 0.
RECURSIVE LastBreak(_, _, _)
LastBreak(s, i, lo) ==
  IF i < lo THEN 0 ELSE IF s[i] = "\n" THEN i ELSE LastBreak(s, i - 1, lo)

\* re.sub(r'^\d+\s*\n', '', text), the digits ending before position d and the
\* white space after them before position e.
StripPageNumberAt(s, d, e) ==
  IF d > 1 /\ LastBreak(s, e - 1, d) > 0
  THEN SubSeq(s, LastBreak(s, e - 1, d) + 1, Len(s))
  ELSE s
StripPageNumber(s) ==
  StripPageNumberAt(s, SkipIn(s, 1, Digit), SkipIn(s, SkipIn(s, 1, Digit), Space))

\* re.sub(r'^\d+\s+(?=ÚNICO|PRIMERO|Único|Primero)', '', text)
StripNumberBeforeOrdinalAt(s, d, e) ==
  IF d > 1 /\ e > d /\ e <= Len(s) /\ s[e] \in OrdinalWords
  THEN SubSeq(s, e, Len(s))
  ELSE s
StripNumberBeforeOrdinal(s) ==
  StripNumberBeforeOrdinalAt(s, SkipIn(s, 1, Digit), SkipIn(s, SkipIn(s, 1, Digit), Space))

\* re.sub(r'[^\S\n]+', ' ', text), from position i on.
RECURSIVE CollapseHorizontal(_, _)
CollapseHorizontal(s, i) ==
  IF i > Len(s) THEN <<>>
  ELSE IF s[i] \in Horizontal
       THEN <<" ">> \o CollapseHorizontal(s, SkipIn(s, i, Horizontal))
       ELSE <<s[i]>> \o CollapseHorizontal(s, i + 1)

\* re.sub(r'\n{3,}', '\n\n', text), from position i on; the run of line breaks
\* at i ends before position e.
RECURSIVE CollapseBreaks(_, _)
BreakRun(s, i, e) == IF e - i >= 3 THEN <<"\n", "\n">> ELSE SubSeq(s, i, e - 1)
CollapseBreaks(s, i) ==
  IF i > Len(s) THEN <<>>
  ELSE IF s[i] = "\n"
       THEN BreakRun(s, i, SkipIn(s, i, {"\n"}))
              \o CollapseBreaks(s, SkipIn(s, i, {"\n"}))
       ELSE <<s[i]>> \o CollapseBreaks(s, i + 1)

\* text.replace('\u2026', '...'), from position i on.
RECURSIVE ExpandEllipsis(_, _)
ExpandEllipsis(s, i) ==
  IF i > Len(s) THEN <<>>
  ELSE (IF s[i] = Ellipsis THEN <<".", ".", ".">> ELSE <<s[i]>>)
         \o ExpandEllipsis(s, i + 1)

NormalizeString(s) ==
  ExpandEllipsis(
    CollapseBreaks(
      CollapseHorizontal(
        StripNumberBeforeOrdinal(StripPageNumber(ReplaceTypographic(s))), 1), 1), 1)

NotNormalized == [done |-> FALSE, value |-> <<>>]
NormalizerIdle == raw = <<>> /\ normalized = NotNormalized

----------------------------------------------------------------------------
\* _extract_resolution_section

NoSection == [type |-> "None", content |-> <<>>]

\* (ACUERDA|RESUELVE), matched case-sensitively.
SectionTitles == {"ACUERDA", "RESUELVE"}

\* (?:PRIMERO|ÚNICO|ÚNICA|PRIMERA|SEGUNDO|Primero|...|1º|1\.|I\.)[.\-:\s]
StrictOrdinals == {"PRIMERO.", "SEGUNDO."}

\* (?=Comuníquese|El presente acuerdo|El presente resolución|Madrid,|Notifíquese|
\*    COMISIÓN NACIONAL|\Z) and (?=Comuníquese|El presente|Madrid,|Notifíquese|\Z):
\* over Vocabulary both lists come to the same word.
SectionSentinels == {"Notifíquese"}

\* (declarar|desestimar|estimar|archivar|inadmitir|aceptar|informar|tener) at the
\* start of a word.
InlineVerbs == {"desestimar", "estimar", "archivar"}

\* Smallest index in i..Len(s) of a token whose word is in ws, or Len(s)+1.
RECURSIVE FirstFrom(_, _, _)
FirstFrom(s, i, ws) ==
  IF i > Len(s) THEN Len(s) + 1
  ELSE IF s[i].w \in ws THEN i
  ELSE FirstFrom(s, i + 1, ws)

IsWord(t) == ~IsNL(t)
AnyWord == (Vocabulary \cup RuleWords) \ {"NL"}
LineBreak == {"NL"}
IsSentinel(t) == t.w \in SectionSentinels

\* Number of line breaks immediately before token i.
RECURSIVE NLBefore(_, _)
NLBefore(s, i) == IF i > 1 /\ IsNL(s[i-1]) THEN 1 + NLBefore(s, i - 1) ELSE 0

\* (?:^|\n)\s*(ACUERDA|RESUELVE)\s*[:\.]?\s*\n+ : an upper-case title that is the
\* first and only word of its line.
TitleLineAt(s, i) ==
  /\ s[i].w \in SectionTitles
  /\ (i = 1 \/ IsNL(s[i-1]))
  /\ i < Len(s) /\ IsNL(s[i+1])

\* First sentinel whose first character is at offset >= lo, as a token index,
\* or Len(s)+1 (\Z).
RECURSIVE SentinelFrom(_, _, _)
SentinelFrom(s, i, lo) ==
  IF i > Len(s) THEN Len(s) + 1
  ELSE IF IsSentinel(s[i]) /\ Start(s, i) >= lo THEN i
  ELSE SentinelFrom(s, i + 1, lo)

\* Offset of token index p, where p = Len(s)+1 stands for the end of the text.
At(s, p) == IF p > Len(s) THEN Chars(s) ELSE Start(s, p)

NoMatch == [start |-> -1, stop |-> 0, type |-> "None", content |-> <<>>]

\* SECTION_PATTERNS_STRICT[0] tried with the title at token i.  [^\n]* takes the
\* rest of the ordinal's line and [\s\S]+? at least one character more, so the
\* content ends at the first sentinel after the first line, or at \Z.
StrictAt(s, i) ==
  IF ~TitleLineAt(s, i) THEN NoMatch
  ELSE LET k == FirstFrom(s, i + 1, AnyWord)
       IN IF k >= Len(s) \/ s[k].w \notin StrictOrdinals THEN NoMatch
          ELSE LET eol == FirstFrom(s, k, LineBreak)
                   p == IF eol > Len(s) THEN Len(s) + 1
                        ELSE SentinelFrom(s, eol + 1, 0)
               IN [start |-> Start(s, i) - NLBefore(s, i), stop |-> p,
                   type |-> s[i].w, content |-> SubSeq(s, k, p - 1)]

\* SECTION_PATTERNS_FLEXIBLE[0] tried with the title at token i: (.{50,}?) ends at
\* the first sentinel at least FlexMin characters in, or at \Z; the line breaks
\* \n+ took beyond the first can be given back to reach FlexMin.
FlexMin == 50
FlexibleAt(s, i) ==
  IF ~TitleLineAt(s, i) THEN NoMatch
  ELSE LET k == FirstFrom(s, i + 1, AnyWord)
           c == At(s, k)
           p == SentinelFrom(s, k, c + FlexMin)
           slack == (k - i - 1) - 1
       IN IF p <= Len(s) \/ Chars(s) - c >= FlexMin
          THEN [start |-> Start(s, i) - NLBefore(s, i), stop |-> p,
                type |-> s[i].w, content |-> SubSeq(s, k, p - 1)]
          ELSE IF Chars(s) - c + slack >= FlexMin
          THEN [start |-> Start(s, i) - NLBefore(s, i), stop |-> Len(s) + 1,
                type |-> s[i].w, content |-> SubSeq(s, k, Len(s))]
          ELSE NoMatch

\* SECTION_PATTERNS_FLEXIBLE[1] tried with the title at token i: the title, white
\* space, an operative verb, then (.{50,800}?) up to a sentinel or \Z.
InlineMin == 50
InlineMax == 800
InlineAt(s, i) ==
  IF s[i].w \notin SectionTitles THEN NoMatch
  ELSE LET k == FirstFrom(s, i + 1, AnyWord)
       IN IF k > Len(s) \/ s[k].w \notin InlineVerbs THEN NoMatch
          ELSE LET c == Stop(s, k)
                   p == SentinelFrom(s, k + 1, c + InlineMin)
               IN IF At(s, p) - c >= InlineMin /\ At(s, p) - c <= InlineMax
                  THEN [start |-> Start(s, i), stop |-> p, type |-> s[i].w,
                        content |-> SubSeq(s, k, p - 1)]
                  ELSE NoMatch

\* One section pattern tried with the title at token i.
SectionMatchAt(pattern, s, i) ==
  CASE pattern = "strict" -> StrictAt(s, i)
    [] pattern = "flexible" -> FlexibleAt(s, i)
    [] pattern = "inline" -> InlineAt(s, i)

\* pattern.finditer(text): the matches from left to right, each search resuming
\* where the previous match stopped.
RECURSIVE FindIter(_, _, _)
FindIter(pattern, s, i) ==
  IF i > Len(s) THEN <<>>
  ELSE LET m == SectionMatchAt(pattern, s, i)
       IN IF m = NoMatch THEN FindIter(pattern, s, i + 1)
          ELSE <<m>> \o FindIter(pattern, s, m.stop)

StrictMatches(s) == FindIter("strict", s, 1)
FlexibleMatches(s) == FindIter("flexible", s, 1) \o FindIter("inline", s, 1)

\* matches.sort(key=start); matches[-1]: the match with the largest start, the
\* one found later when two starts are equal (the sort is stable).
RECURSIVE LastAmong(_, _)
LastAmong(ms, n) ==
  IF n = 1 THEN 1
  ELSE IF ms[n].start >= ms[LastAmong(ms, n - 1)].start THEN n
  ELSE LastAmong(ms, n - 1)

\* Faulty variant: the first match found is taken.
LastByStartFirst(ms) == ms[1]
LastByStart(ms) == ms[LastAmong(ms, Len(ms))]

\* _clean_section
CleanSection(m) == [type |-> m.type, content |-> CollapseNL(Strip(m.content))]

ExtractResolutionSection(s) ==
  IF StrictMatches(s) # <<>> THEN CleanSection(LastByStart(StrictMatches(s)))
  ELSE IF FlexibleMatches(s) # <<>> THEN CleanSection(LastByStart(FlexibleMatches(s)))
  ELSE NoSection

----------------------------------------------------------------------------
\* _extract_first_point

\* (?:ÚNICO|ÚNICA|PRIMERO|PRIMERA|1º|1\.|I\.) at the start of the content,
\* case-insensitively.
FirstOrdinals == {"PRIMERO."}

\* (?:SEGUNDO|SEGUNDA|2º|2\.|II\.) at the start of a word, case-insensitively.
SecondOrdinals == {"SEGUNDO."}

\* Words made of four or more ASCII letters and at most a final full stop:
\* [A-Z]{4,}\.? under re.IGNORECASE.
IsAlpha4(t) ==
  \/ t.w \in { "RESUELVE", "PRIMERO.", "SEGUNDO.", "estimar", "desestimar", "desestima",
               "desestiman", "estimamos", "desestimamos", "archivar", "confirmar", "anular",
               "reconocer",
               "recurso", "conflicto", "conflictos", "actuaciones", "derecho", "acceso",
               "impugnada", "reclamante", "toma", "nota" }
  \/ (t.w = "x" /\ t.n >= 4)

\* The look-ahead (?![A-Z]{4,}\.?\s|SEGUNDO|SEGUNDA|2º|2\.|II\.) after the line
\* break at token i fails: the next line opens with a second ordinal, or with a
\* word of four or more letters that white space follows.
LineBlocked(s, i) ==
  /\ i < Len(s)
  /\ \/ s[i+1].w \in SecondOrdinals
     \/ (IsAlpha4(s[i+1]) /\ i + 1 < Len(s))

\* patterns[0]: the ordinal's line, then (?:\n(?!...).*)*: under re.DOTALL the
\* first .* that is let through runs to the end of the content.
FirstPointOrdinal(s) ==
  LET eol == FirstFrom(s, 1, LineBreak)
  IN IF eol > Len(s) \/ ~LineBlocked(s, eol) THEN s
     ELSE SubSeq(s, 1, eol - 1)

\* patterns[1]: ^(.{50,500}?)(?=SEGUNDO|SEGUNDA|2º|2\.|II\.|$), and the slice
\* section_content[:500] when it does not match.
FirstPointMin == 50
FirstPointMax == 500
FirstPointSlice(s) ==
  LET hits == {j \in 1..Len(s) : s[j].w \in SecondOrdinals /\ Start(s, j) >= FirstPointMin}
      p == IF hits = {} THEN Len(s) + 1
           ELSE CHOOSE j \in hits : \A h \in hits : j <= h
  IN IF At(s, p) >= FirstPointMin /\ At(s, p) <= FirstPointMax
     THEN SubSeq(s, 1, p - 1)
     ELSE Prefix(s, FirstPointMax)

ExtractFirstPoint(s) ==
  IF s # <<>> /\ s[1].w \in FirstOrdinals THEN Strip(FirstPointOrdinal(s))
  ELSE Strip(FirstPointSlice(s))

----------------------------------------------------------------------------
\* Category patterns (CATEGORIES), compiled with re.IGNORECASE | re.DOTALL.
\* A match is the pair of the first and the last token it touches.

NoSpan == <<0, 0>>

NextWord(s, i) == FirstFrom(s, i + 1, AnyWord)
WordAt(s, i) == IF i >= 1 /\ i <= Len(s) THEN s[i].w ELSE "NL"

\* Words in which estim(?:ar?|e) or desestim(?:ar?|e) ends at the end of the word,
\* so that \s+ can follow.
EstimEnd == {"estimar", "desestimar", "desestima"}
DesestimEnd == {"desestimar", "desestima"}
\* Words that contain estim(?:ar?|e) (also estim(?:ar?|amos?)), with the offset
\* of the stem in the word and the offset at which its longest form ends.
EstimIn == {"estimar", "desestimar", "desestima", "desestiman", "estimamos", "desestimamos"}
EstimOff(w) == IF w \in {"estimar", "estimamos"} THEN 0 ELSE 3
EstimStemEnd(w) ==
  CASE w = "estimar" -> 7 [] w = "desestimar" -> 10 [] w = "desestima" -> 9
    [] w = "desestiman" -> 9 [] w = "estimamos" -> 6 [] w = "desestimamos" -> 9
\* Words that begin with desestim(?:ar?|e), also desestim(?:ar?|amos?).
DesestimStart == {"desestimar", "desestima", "desestiman", "desestimamos"}
\* Words that begin with (?:conflicto|recurso|reclamación|solicitud|pretensión).
NounStart == {"recurso", "conflicto", "conflictos"}

\* A pattern that is a chain of words: phrase[k].ws are the words element k
\* accepts, phrase[k].opt says that the element is optional (taken when it can
\* be, as a greedy (?:...)? is).  The last token of the match, or 0.
RECURSIVE PhraseFrom(_, _, _, _, _)
PhraseFrom(s, j, phrase, k, last) ==
  IF k > Len(phrase) THEN last
  ELSE LET taken == IF j <= Len(s) /\ s[j].w \in phrase[k].ws
                    THEN PhraseFrom(s, NextWord(s, j), phrase, k + 1, j) ELSE 0
       IN IF taken # 0 THEN taken
          ELSE IF phrase[k].opt THEN PhraseFrom(s, j, phrase, k + 1, last)
          ELSE 0

PhraseAt(s, i, phrase) == PhraseFrom(s, i, phrase, 1, 0)

Req(ws) == [ws |-> ws, opt |-> FALSE]
Opt(ws) == [ws |-> ws, opt |-> TRUE]

\* Line 50: archivar?\s+(?:las\s+|el\s+)?(?:actuaciones|procedimiento)
P50 == <<Req({"archivar"}), Opt({"las", "el"}), Req({"actuaciones"})>>
\* Line 85: desestim(?:ar?|e)\s+(?:íntegramente\s+)?(?:el\s+)?(?:presente\s+)?
\*          (?:conflicto|recurso|reclamación)
P85 == <<Req(DesestimEnd), Opt({"el"}), Req(NounStart)>>
\* Line 86: desestim(?:ar?|e)\s+(?:los\s+)?conflictos
P86 == <<Req(DesestimEnd), Opt({"los"}), Req({"conflictos"})>>
\* Line 89: (?:ÚNICO|Único|PRIMERO|Primero)[.\s:-]+\s*[Dd]esestim(?:ar?|e)
P89 == <<Req({"PRIMERO."}), Req(DesestimStart)>>
\* Line 95: confirmar?\s+la\s+(?:denegación|actuación)
P95 == <<Req({"confirmar"}), Req({"la"}), Req({"denegación"})>>
\* Line 107: estim(?:ar?|e)\s+(?:parcialmente\s+)?(?:íntegramente\s+)?(?:el\s+)?
\*           (?:presente\s+)?(?:conflicto|recurso|reclamación)
P107 == <<Req(EstimEnd), Opt({"el"}), Req(NounStart)>>
\* Line 110: estim(?:ar?|e)\s+(?:parcialmente\s+)?(?:los\s+)?conflictos
P110 == <<Req(EstimEnd), Opt({"los"}), Req({"conflictos"})>>
\* Line 119: reconocer\s+(?:el\s+)?derecho
P119 == <<Req({"reconocer"}), Opt({"el"}), Req({"derecho"})>>
\* Line 121: reconocer\s+a\s+[A-Z\"\'\"\[\(] : any word that begins with a letter
P121 == <<Req({"reconocer"}), Req({"a"}), Req(Vocabulary \ {"NL", "21"})>>
\* Line 124: anular\s+(?:el\s+)?(?:la\s+)?(?:comunicación|resolución|acto|denegación|
\*           contenido)
P124 == <<Req({"anular"}), Opt({"el"}), Opt({"la"}), Req({"resolución", "denegación"})>>
\* The tails of lines 101, 102, 136 and 137, after (?:fallo|fallamos).{0,100}
P101 == <<Req(DesestimStart)>>
P102 == <<Req({"confirmar"}), Opt({"la"}), Req({"resolución"})>>
P136 == <<Req(EstimIn)>>
P137 == <<Req({"anular"}), Opt({"la"}), Req({"resolución"})>>

\* pattern.search for a chain of words: the leftmost match.
SpanOr(i, last, otherwise) == IF last # 0 THEN <<i, last>> ELSE otherwise

RECURSIVE PhraseSearchFrom(_, _, _)
PhraseSearchFrom(s, phrase, i) ==
  IF i > Len(s) THEN NoSpan
  ELSE SpanOr(i, PhraseAt(s, i, phrase), PhraseSearchFrom(s, phrase, i + 1))

PhraseSearch(s, phrase) == PhraseSearchFrom(s, phrase, 1)

\* (?:fallo|fallamos).{0,100}<tail>: a word with the verdict keyword, at most
\* FalloGap characters, then the tail; .{0,100} is greedy, so the tail that
\* starts last wins.  off(w) is the offset in its word at which the tail starts.
FalloWords == {"FALLAMOS:"}
FalloEnd == 8
FalloGap == 100
FalloSearch(s, phrase, stem) ==
  LET off(w) == IF stem THEN EstimOff(w) ELSE 0 IN
  LET tails(i) == {j \in i..Len(s) :
                     /\ PhraseAt(s, j, phrase) # 0
                     /\ Start(s, j) + off(s[j].w) - (Start(s, i) + FalloEnd) >= 0
                     /\ Start(s, j) + off(s[j].w) - (Start(s, i) + FalloEnd) <= FalloGap}
      hits == {i \in 1..Len(s) : s[i].w \in FalloWords /\ tails(i) # {}}
  IN IF hits = {} THEN NoSpan
     ELSE LET i == CHOOSE j \in hits : \A h \in hits : j <= h
              t == CHOOSE j \in tails(i) : \A h \in tails(i) : j >= h
          IN <<i, PhraseAt(s, t, phrase)>>

\* Line 84: desestim(?:ar?|e)(?:\s+\S+){0,5}\s+(?:el\s+)?(?:presente\s+)?
\*          (?:conflicto|recurso|reclamación|solicitud|pretensión)
\* The verb, up to MaxBetween whole words, an optional "el", then the noun;
\* the repetition is greedy, so the farthest noun in reach ends the match.
MaxBetween == 5
RECURSIVE WordsAfter(_, _, _)
WordsAfter(s, i, k) ==
  IF k = 0 \/ NextWord(s, i) > Len(s) THEN <<>>
  ELSE <<NextWord(s, i)>> \o WordsAfter(s, NextWord(s, i), k - 1)

P84At(s, i) ==
  IF s[i].w \notin DesestimEnd THEN 0
  ELSE LET after == WordsAfter(s, i, MaxBetween + 2)
           ends == {m \in 1..Len(after) :
                      /\ s[after[m]].w \in NounStart
                      /\ \/ m - 1 <= MaxBetween
                         \/ (m - 2 <= MaxBetween /\ s[after[m-1]].w = "el")}
       IN IF ends = {} THEN 0
          ELSE after[CHOOSE m \in ends : \A h \in ends : m >= h]

\* Line 106: estim(?:ar?|e)(?:,?\s*[^.]{0,100}?,?)?\s*(?:el\s+)?
\*           (?:conflicto|recurso|reclamación|solicitud)
\* The stem anywhere in a word, then the nearest noun, with no full stop in
\* between and at most MaxFree characters that are not the white space around
\* them or a final "el".
MaxFree == 100
HasStop(t) == t.w \in {"PRIMERO.", "SEGUNDO."}
P106At(s, i) ==
  IF s[i].w \notin EstimIn THEN 0
  ELSE LET j == FirstFrom(s, i + 1, NounStart)
       IN IF j > Len(s) THEN 0
          ELSE LET prev == CHOOSE q \in i..(j-1) : IsWord(s[q]) /\ \A r \in (q+1)..(j-1) : IsNL(s[r])
                   upto == IF prev > i /\ s[prev].w = "el"
                           THEN (CHOOSE q \in i..(prev-1) :
                                   IsWord(s[q]) /\ \A r \in (q+1)..(prev-1) : IsNL(s[r]))
                           ELSE prev
                   from == Start(s, i) + EstimStemEnd(s[i].w)
                   lead == IF from = Stop(s, i) THEN Start(s, NextWord(s, i)) ELSE from
                   free == Stop(s, upto) - lead
               IN IF (\E q \in (i+1)..(j-1) : HasStop(s[q])) \/ free > MaxFree THEN 0
                  ELSE j

SpecialAt(line, s, i) == IF line = "84" THEN P84At(s, i) ELSE P106At(s, i)

RECURSIVE SpecialSearchFrom(_, _, _)
SpecialSearchFrom(line, s, i) ==
  IF i > Len(s) THEN NoSpan
  ELSE SpanOr(i, SpecialAt(line, s, i), SpecialSearchFrom(line, s, i + 1))

SpecialSearch(line, s) == SpecialSearchFrom(line, s, 1)

\* self._category_patterns in the order the loops of classify visit it: the
\* categories in the order of the CATEGORIES dictionary, the patterns of a
\* category in the order of its list.  Two faulty variants come first: the line 95
\* pattern (confirmar la denegación) filed under ESTIMADO, and the DESESTIMADO
\* group declared before ARCHIVADO.
CategoryPatternsPolarity ==
  << <<"ARCHIVADO", "50">>,
     <<"DESESTIMADO", "84">>, <<"DESESTIMADO", "85">>, <<"DESESTIMADO", "86">>,
     <<"DESESTIMADO", "89">>, <<"DESESTIMADO", "101">>, <<"DESESTIMADO", "102">>,
     <<"ESTIMADO", "106">>, <<"ESTIMADO", "107">>, <<"ESTIMADO", "110">>,
     <<"ESTIMADO", "119">>, <<"ESTIMADO", "121">>, <<"ESTIMADO", "124">>,
     <<"ESTIMADO", "95">>, <<"ESTIMADO", "136">>, <<"ESTIMADO", "137">> >>
CategoryPatternsDeniedFirst ==
  << <<"DESESTIMADO", "84">>, <<"DESESTIMADO", "85">>, <<"DESESTIMADO", "86">>,
     <<"DESESTIMADO", "89">>, <<"DESESTIMADO", "95">>, <<"DESESTIMADO", "101">>,
     <<"DESESTIMADO", "102">>,
     <<"ARCHIVADO", "50">>,
     <<"ESTIMADO", "106">>, <<"ESTIMADO", "107">>, <<"ESTIMADO", "110">>,
     <<"ESTIMADO", "119">>, <<"ESTIMADO", "121">>, <<"ESTIMADO", "124">>,
     <<"ESTIMADO", "136">>, <<"ESTIMADO", "137">> >>
CategoryPatterns ==
  << <<"ARCHIVADO", "50">>,
     <<"DESESTIMADO", "84">>, <<"DESESTIMADO", "85">>, <<"DESESTIMADO", "86">>,
     <<"DESESTIMADO", "89">>, <<"DESESTIMADO", "95">>, <<"DESESTIMADO", "101">>,
     <<"DESESTIMADO", "102">>,
     <<"ESTIMADO", "106">>, <<"ESTIMADO", "107">>, <<"ESTIMADO", "110">>,
     <<"ESTIMADO", "119">>, <<"ESTIMADO", "121">>, <<"ESTIMADO", "124">>,
     <<"ESTIMADO", "136">>, <<"ESTIMADO", "137">> >>

\* pattern.search(s) for the category pattern of the given source line.
PhraseLines == {"50", "85", "86", "89", "95", "107", "110", "119", "121", "124"}
FalloLines == {"101", "102", "136", "137"}
PhraseOf(line) ==
  CASE line = "50" -> P50 [] line = "85" -> P85 [] line = "86" -> P86
    [] line = "89" -> P89 [] line = "95" -> P95 [] line = "101" -> P101
    [] line = "102" -> P102 [] line = "107" -> P107 [] line = "110" -> P110
    [] line = "119" -> P119 [] line = "121" -> P121 [] line = "124" -> P124
    [] line = "136" -> P136 [] line = "137" -> P137

PatternSearch(line, s) ==
  IF line \in PhraseLines THEN PhraseSearch(s, PhraseOf(line))
  ELSE IF line \in FalloLines THEN FalloSearch(s, PhraseOf(line), line = "136")
  ELSE SpecialSearch(line, s)

NoCategory == [categoria |-> "NO_CLASIFICADO", words |-> <<>>]

\* The words a match touches.
SpanWords(s, span) == [i \in 1..(span[2] - span[1] + 1) |-> s[span[1] + i - 1].w]

\* if match: the category and the words of the match; the next pattern otherwise.
Matched(categoria, s, span, otherwise) ==
  IF span # NoSpan THEN [categoria |-> categoria, words |-> SpanWords(s, span)]
  ELSE otherwise

\* for categoria, patterns in ...: for pattern in patterns: the first pattern,
\* in the order of the table, that matches somewhere in s.
RECURSIVE FirstMatch(_, _, _)
FirstMatch(table, s, k) ==
  IF k > Len(table) THEN NoCategory
  ELSE Matched(table[k][1], s, PatternSearch(table[k][2], s), FirstMatch(table, s, k + 1))

MatchCategory(s) == FirstMatch(CategoryPatterns, s, 1)

----------------------------------------------------------------------------
\* ClassificationResult

NoText == [tag |-> "", words |-> <<>>]
NoResult == [categoria |-> "None", confianza |-> "None", texto_clave |-> NoText,
             seccion_encontrada |-> FALSE]

ClassificationResult(categoria, confianza, tag, words, found) ==
  [categoria |-> categoria, confianza |-> confianza,
   texto_clave |-> [tag |-> tag, words |-> words], seccion_encontrada |-> found]

WordsOf(s) == [i \in 1..Len(s) |-> s[i].w]

\* return ClassificationResult(categoria=categoria, ..., texto_clave=match.group(0))
\* when a pattern matched, NoResult when none did.
FoundIn(m, confianza, tag, found) ==
  IF m # NoCategory THEN ClassificationResult(m.categoria, confianza, tag, m.words, found)
  ELSE NoResult

OrElse(found, otherwise) == IF found # NoResult THEN found ELSE otherwise

----------------------------------------------------------------------------
\* _classify_fallback

\* (?:FALLO|FALLAMOS|Audiencia\s+Nacional|Tribunal\s+Supremo|SENTENCIA)
IsSentencia(s) == \E i \in 1..Len(s) : s[i].w \in FalloWords

\* (?:FALLO|FALLAMOS)[:\s]*(.{50,1500}?)(?:Notifíquese|Así\s+...|firmamos|\Z)
\* tried at the keyword in token i: the verdict text starts at the next word and
\* ends at the first sentinel, or at \Z, that lies FalloMin to FalloMax
\* characters in; the colon and white space [:\s]* took can be given back.
FalloMin == 50
FalloMax == 1500
FalloStop(s, i) ==
  LET k == NextWord(s, i)
      c == At(s, k)
      slack == c - (Start(s, i) + FalloEnd)
      stop(g) == SentinelFrom(s, k, c - g + FalloMin)
      fits(g) == /\ At(s, stop(g)) >= c - g + FalloMin
                 /\ At(s, stop(g)) <= c - g + FalloMax
      gs == {g \in 0..slack : fits(g)}
  IN IF s[i].w \notin FalloWords \/ gs = {} THEN 0
     ELSE stop(CHOOSE g \in gs : \A h \in gs : g <= h)

NoFallo == <<NL>>
FalloText(s) ==
  LET hits == {i \in 1..Len(s) : FalloStop(s, i) # 0}
  IN IF hits = {} THEN NoFallo
     ELSE LET i == CHOOSE j \in hits : \A h \in hits : j <= h
          IN SubSeq(s, NextWord(s, i), FalloStop(s, i) - 1)

\* text[-3000:]
LastPartLen == 3000
LastPart(s) == Suffix(s, LastPartLen)

\* high_confidence_patterns, in the order of the dictionary (ESTIMADO first).
\* Line 322: (?:se\s+)?estima\s+(?:el\s+)?(?:recurso|conflicto)
H322 == <<Req({"desestima"}), Opt({"el"}), Req(NounStart)>>
\* Line 324: reconocer\s+(?:el\s+)?derecho
H324 == <<Req({"reconocer"}), Opt({"el"}), Req({"derecho"})>>
\* Line 327: (?:se\s+)?desestima\s+(?:el\s+)?(?:recurso|conflicto)
H327 == <<Opt({"se"}), Req({"desestima"}), Opt({"el"}), Req(NounStart)>>

HighConfidencePatterns ==
  << <<"ESTIMADO", H322>>, <<"ESTIMADO", H324>>, <<"DESESTIMADO", H327>> >>

\* last_resort_patterns, in the order of the dictionary (DESESTIMADO first).
\* Line 354: \bdesestim(?:ar?|e|ó|ado)\b
\* Line 355: \bestim(?:ar?|e|ó|ado)\b(?!\s*(?:que|conveniente))
\* Line 356: \b(?:archiv(?:ar?|e|ó|ado)|conclus[oa]|inadmit)\b
LastResortPatterns ==
  << <<"DESESTIMADO", <<Req({"desestimar", "desestima"})>> >>,
     <<"ESTIMADO", <<Req({"estimar"})>> >>,
     <<"ARCHIVADO", <<Req({"archivar"})>> >> >>

RECURSIVE FirstPhrase(_, _, _)
FirstPhrase(table, s, k) ==
  IF k > Len(table) THEN NoCategory
  ELSE Matched(table[k][1], s, PhraseSearch(s, table[k][2]), FirstPhrase(table, s, k + 1))

\* The four tiers of _classify_fallback, each as the result it returns, or
\* NoResult when the tier finds nothing.
SentenciaConfianza == "media"
\* Faulty variant of the judicial tier: the match returned without its marker.
TierSentenciaUntagged(s) ==
  IF IsSentencia(s) /\ FalloText(s) # NoFallo
  THEN FoundIn(MatchCategory(FalloText(s)), SentenciaConfianza, "", FALSE)
  ELSE NoResult
TierSentencia(s) ==
  IF IsSentencia(s) /\ FalloText(s) # NoFallo
  THEN FoundIn(MatchCategory(FalloText(s)), SentenciaConfianza, "[SENTENCIA] ", FALSE)
  ELSE NoResult

TierLastPart(s) == FoundIn(MatchCategory(LastPart(s)), "baja", "", FALSE)

TierHighConfidence(s) ==
  FoundIn(FirstPhrase(HighConfidencePatterns, s, 1), "baja", "", FALSE)

TierLastResort(s) ==
  FoundIn(FirstPhrase(LastResortPatterns, s, 1), "baja", "[ÚLTIMO RECURSO] ", FALSE)

\* The final return, after two faulty variants: a category outside the four, and
\* the head of the text as texto_clave.
UnclassifiedLegacy == ClassificationResult("RESUELTO", "baja", "", <<>>, FALSE)
UnclassifiedWithText ==
  ClassificationResult("NO_CLASIFICADO", "baja", "", WordsOf(Prefix(text, 100)), FALSE)
Unclassified == ClassificationResult("NO_CLASIFICADO", "baja", "", <<>>, FALSE)

----------------------------------------------------------------------------
\* rules.py: ClassificationRule, DEFAULT_RULES and RuleBasedClassifier.  The
\* rule patterns are compiled with re.IGNORECASE only, so a '.' stays on its
\* line.

\* Words that end with "se", with "no", with estim(ar|a), with archivar?, with
\* "archivo"; words that begin with "desestima", with "estima", with
\* (reclamación|solicitud|recurso); words that hold fallo or resuelve, "desestim",
\* "estim".
EndsSe == {"se", "Notifíquese"}
EndsNo == {"no"}
EndsEstima == {"estimar", "desestimar", "estima", "desestima"}
StartsDesestima == {"desestima", "desestimar", "desestiman", "desestimamos"}
StartsEstima == {"estima", "estimar", "estimamos"}
RuleNouns == {"reclamación", "recurso"}
HoldsFallo == {"RESUELVE"}
HoldsDesestim == {"desestimar", "desestima", "desestiman", "desestimamos"}
HoldsEstim == HoldsDesestim \cup {"estimar", "estima", "estimamos"}

\* A compiled pattern: a chain of words, or (fallo|resuelve).*stem.
PhrasePattern(phrase) == [kind |-> "phrase", phrase |-> phrase, stem |-> {}]
LinePattern(stem) == [kind |-> "line", phrase |-> <<>>, stem |-> stem]

\* (fallo|resuelve).*stem: the stem after the head word, on the same line.
SameLine(s, i, j) == \A k \in i..j : ~IsNL(s[k])
LineSearch(s, stem) ==
  \E i \in 1..Len(s) : \E j \in i + 1..Len(s) :
    s[i].w \in HoldsFallo /\ s[j].w \in stem /\ SameLine(s, i, j)

\* pattern.search(text) is not None
PatternFound(p, s) ==
  IF p.kind = "phrase" THEN PhraseSearch(s, p.phrase) # NoSpan
  ELSE LineSearch(s, p.stem)

ClassificationRule(name, pattern, category, priority, negative_patterns) ==
  [name |-> name, pattern |-> pattern, category |-> category, priority |-> priority,
   negative_patterns |-> negative_patterns]

\* ClassificationRule.matches
Matches(rule, s) ==
  /\ PatternFound(rule.pattern, s)
  /\ \A k \in 1..Len(rule.negative_patterns) : ~PatternFound(rule.negative_patterns[k], s)

DEFAULT_RULES ==
  << ClassificationRule("desestimacion_total",
       PhrasePattern(<<Req(EndsSe), Req({"desestima"}), Opt({"la"}), Req(RuleNouns)>>),
       "DESESTIMADO", 10, <<>>),
     ClassificationRule("desestimacion_fallo", LinePattern(HoldsDesestim),
       "DESESTIMADO", 10, <<>>),
     ClassificationRule("estimacion_total",
       PhrasePattern(<<Req(EndsSe), Req({"estima"}), Opt({"la"}), Req(RuleNouns)>>),
       "ESTIMADO", 10,
       << PhrasePattern(<<Req(EndsNo), Req({"se"}), Req(StartsEstima)>>),
          PhrasePattern(<<Req(EndsSe), Req(StartsDesestima)>>) >>),
     ClassificationRule("estimacion_parcial",
       PhrasePattern(<<Req(EndsEstima), Req({"parcialmente"})>>),
       "ESTIMADO_PARCIAL", 8, <<>>),
     ClassificationRule("estimacion_fallo", LinePattern(HoldsEstim),
       "ESTIMADO", 9, <<LinePattern(HoldsDesestim)>>),
     ClassificationRule("archivo_actuaciones",
       PhrasePattern(<<Req({"archivar"}), Opt({"las"}), Req({"actuaciones"})>>),
       "ARCHIVADO", 10, <<>>),
     ClassificationRule("archivo_expediente",
       PhrasePattern(<<Req({"archivo"}), Req({"del"}), Req({"expediente"})>>),
       "ARCHIVADO", 10, <<>>) >>

\* list.sort(key=lambda r: r.priority, reverse=True): a stable sort, so rules of
\* equal priority keep their order.  Each rule is put into the sorted list
\* behind every rule whose priority is not lower.
RECURSIVE InsertAt(_, _, _)
InsertAt(rs, r, i) ==
  IF i > Len(rs) \/ rs[i].priority < r.priority THEN i ELSE InsertAt(rs, r, i + 1)

InsertBefore(rs, r, i) == SubSeq(rs, 1, i - 1) \o <<r>> \o SubSeq(rs, i, Len(rs))
Insert(r, rs) == InsertBefore(rs, r, InsertAt(rs, r, 1))

RECURSIVE SortFrom(_, _, _)
SortFrom(rs, i, sorted) ==
  IF i > Len(rs) THEN sorted ELSE SortFrom(rs, i + 1, Insert(rs[i], sorted))

\* Faulty variant: the rules are left in the order of their declaration.
SortByPriorityNot(rs) == rs
SortByPriority(rs) == SortFrom(rs, 1, <<>>)

\* RuleBasedClassifier.classify over the rules from position i on
RECURSIVE ClassifyFrom(_, _, _)
ClassifyFrom(rules, s, i) ==
  IF i > Len(rules) THEN "None"
  ELSE IF Matches(rules[i], s) THEN rules[i].category
  ELSE ClassifyFrom(rules, s, i + 1)

RuleClassify(rules, s) == ClassifyFrom(rules, s, 1)

\* RuleBasedClassifier.classify_with_details: the loop from position i on, with
\* the locals category and matched_rules.
\* Faulty variant: the category of the last matching rule is kept.
RECURSIVE DetailsFromLast(_, _, _, _, _)
DetailsFromLast(rules, s, i, category, matched_rules) ==
  IF i > Len(rules) THEN [category |-> category, matched_rules |-> matched_rules]
  ELSE IF Matches(rules[i], s)
       THEN DetailsFromLast(rules, s, i + 1, rules[i].category,
                            Append(matched_rules, rules[i].name))
       ELSE DetailsFromLast(rules, s, i + 1, category, matched_rules)
RECURSIVE DetailsFrom(_, _, _, _, _)
DetailsFrom(rules, s, i, category, matched_rules) ==
  IF i > Len(rules) THEN [category |-> category, matched_rules |-> matched_rules]
  ELSE IF Matches(rules[i], s)
       THEN DetailsFrom(rules, s, i + 1,
                        IF category = "None" THEN rules[i].category ELSE category,
                        Append(matched_rules, rules[i].name))
       ELSE DetailsFrom(rules, s, i + 1, category, matched_rules)

RuleClassifyWithDetails(rules, s) == DetailsFrom(rules, s, 1, "None", <<>>)

NoInstance == "None"
NoCall == [op |-> "None", category |-> "None", matched_rules |-> <<>>]
RulesIdle ==
  /\ default_rules = DEFAULT_RULES /\ caller_rules = <<>> /\ self_rules = NoInstance
  /\ rule_text = <<>> /\ rule_call = NoCall

----------------------------------------------------------------------------
\* classify as a function of its argument: what the steps below compute for a
\* text, in one expression.
FirstPointConfianza == "alta"
TextoClaveLen == 100
\* Faulty variant: a whole-section match reported with the fallback confidence.
SectionConfianzaLow == "baja"
SectionConfianza == "media"

ClassifyInSection(content, point) ==
  OrElse(FoundIn(MatchCategory(point), FirstPointConfianza, "", TRUE),
         OrElse(FoundIn(MatchCategory(content), SectionConfianza, "", TRUE),
                ClassificationResult("NO_CLASIFICADO", "baja", "",
                                     WordsOf(Prefix(point, TextoClaveLen)), TRUE)))

ClassifyFallback(s) ==
  OrElse(TierSentencia(s),
         OrElse(TierLastPart(s),
                OrElse(TierHighConfidence(s), OrElse(TierLastResort(s), Unclassified))))

ClassifyLocated(s, located) ==
  IF located = NoSection THEN ClassifyFallback(s)
  ELSE ClassifyInSection(located.content, ExtractFirstPoint(located.content))

ClassifyText(s) == ClassifyLocated(NormalizeText(s), ExtractResolutionSection(NormalizeText(s)))

----------------------------------------------------------------------------
\* classifier_v2.py, ResolutionClassifierV2.  Its strict section pattern and its
\* first flexible pattern accept the same texts over Vocabulary as those of
\* ResolutionClassifier; it has no inline pattern and does not normalize.

\* CATEGORIES of ResolutionClassifierV2, the patterns that words of Vocabulary
\* can match, in the order of the dictionary:
\*   archivar?\s+(?:las\s+)?actuaciones
\*   desestim(?:ar?|e)\s+(?:el\s+)?(?:conflicto|recurso|reclamación|solicitud)
\*   desestim(?:ar?|e)\s+(?:los\s+)?conflictos
\*   estim(?:ar?|e)\s+(?:parcialmente\s+)?(?:el\s+)?(?:conflicto|recurso|...)
\*   estim(?:ar?|e)\s+(?:parcialmente\s+)?(?:los\s+)?conflictos
CategoryPatternsV2 ==
  << <<"ARCHIVADO", <<Req({"archivar"}), Opt({"las"}), Req({"actuaciones"})>> >>,
     <<"DESESTIMADO", <<Req(DesestimEnd), Opt({"el"}), Req(NounStart)>> >>,
     <<"DESESTIMADO", <<Req(DesestimEnd), Opt({"los"}), Req({"conflictos"})>> >>,
     <<"ESTIMADO", <<Req(EstimEnd), Opt({"el"}), Req(NounStart)>> >>,
     <<"ESTIMADO", <<Req(EstimEnd), Opt({"los"}), Req({"conflictos"})>> >> >>

MatchCategoryV2(s) == FirstPhrase(CategoryPatternsV2, s, 1)

ExtractResolutionSectionV2(s) ==
  IF StrictMatches(s) # <<>> THEN CleanSection(LastByStart(StrictMatches(s)))
  ELSE IF FindIter("flexible", s, 1) # <<>>
       THEN CleanSection(LastByStart(FindIter("flexible", s, 1)))
  ELSE NoSection

\* text[-2000:]
LastPartLenV2 == 2000
ClassifyFallbackV2(s) ==
  OrElse(FoundIn(MatchCategoryV2(Suffix(s, LastPartLenV2)), "baja", "", FALSE), Unclassified)

ClassifyInSectionV2(content, point) ==
  OrElse(FoundIn(MatchCategoryV2(point), "alta", "", TRUE),
         OrElse(FoundIn(MatchCategoryV2(content), "media", "", TRUE),
                ClassificationResult("NO_CLASIFICADO", "baja", "",
                                     WordsOf(Prefix(point, TextoClaveLen)), TRUE)))

ClassifyLocatedV2(s, located) ==
  IF located = NoSection THEN ClassifyFallbackV2(s)
  ELSE ClassifyInSectionV2(located.content, ExtractFirstPoint(located.content))

ClassifyV2(s) == ClassifyLocatedV2(s, ExtractResolutionSectionV2(s))

----------------------------------------------------------------------------
\* rules.py, extract_fallo_section

\* (?:FALLO|RESUELVE|RESOLUCIÓN)[:\s]*(.{100,2000}?)(?:NOTIFÍQUESE|$), with
\* re.IGNORECASE | re.DOTALL, tried at the keyword in token i: the section starts
\* at the next word and ends at the first sentinel, or at the end of the text,
\* that lies FalloSectionMin to FalloSectionMax characters in; the white space
\* [:\s]* took can be given back.  The key words are matched anywhere, and of
\* Vocabulary only RESUELVE and resolución hold one, as the whole word.  The second pattern (Por todo lo anterior)
\* needs words that are not in Vocabulary.
FalloKeywords == {"RESUELVE", "resolución"}
FalloSectionMin == 100
FalloSectionMax == 2000
\* $ also matches just before a line break that ends the text.
BeforeLastBreak(s, p) == IF p > Len(s) /\ s # <<>> /\ IsNL(s[Len(s)]) THEN 1 ELSE 0
FalloSectionStop(s, i) ==
  LET k == NextWord(s, i)
      c == At(s, k)
      slack == c - Stop(s, i)
      stop(g) == SentinelFrom(s, k, c - g + FalloSectionMin)
      fits(g) == /\ At(s, stop(g)) >= c - g + FalloSectionMin
                 /\ At(s, stop(g)) - BeforeLastBreak(s, stop(g)) <= c - g + FalloSectionMax
      gs == {g \in 0..slack : fits(g)}
  IN IF s[i].w \notin FalloKeywords \/ gs = {} THEN 0
     ELSE stop(CHOOSE g \in gs : \A h \in gs : g <= h)

\* The first keyword from token i on at which the pattern matches, or 0.
RECURSIVE FalloSectionFrom(_, _)
FalloSectionFrom(s, i) ==
  IF i > Len(s) THEN 0
  ELSE IF FalloSectionStop(s, i) # 0 THEN i
  ELSE FalloSectionFrom(s, i + 1)

\* match.group(1).strip(), or <<NL>> for None
NoFalloSection == <<NL>>
FalloSectionAt(s, i) ==
  IF i = 0 THEN NoFalloSection
  ELSE Strip(SubSeq(s, NextWord(s, i), FalloSectionStop(s, i) - 1))
ExtractFalloSection(s) == FalloSectionAt(s, FalloSectionFrom(s, 1))

\* analysis_text = fallo_text if fallo_text else text
AnalysisText(s, fallo_text) ==
  IF fallo_text = NoFalloSection \/ fallo_text = <<>> THEN s ELSE fallo_text

----------------------------------------------------------------------------
\* The values of the scripts run_analysis.py and run_analysis_v3.py.

\* A record of the input file: Expediente.from_dict, or the dictionary itself.
\* "None" stands for None and for a key the dictionary does not have.
Expediente(url, clasificado) ==
  [url_resolucion |-> url, resultado_clasificado |-> clasificado,
   keywords_encontradas |-> <<>>, texto_resolucion |-> <<NL>>, confianza |-> "None"]

\* What extract_text_from_url returns: None when the download failed, else the
\* text that was extracted, which may be empty.
NoPdf == [ok |-> FALSE, text |-> <<>>]
Pdf(s) == [ok |-> TRUE, text |-> s]

\* not exp.url_resolucion; not text
FalsyUrl(url) == url \in {"None", ""}
\* Faulty variant: only None counts as no text.
FalsyTextNoneOnly(t) == ~t.ok
FalsyText(t) == ~t.ok \/ t.text = <<>>

NoStats ==
  [total |-> 0, con_pdf |-> 0, analizados |-> 0, clasificados |-> 0, no_clasificados |-> 0,
   errores |-> 0]
ResultKeys == {"ERROR", "ESTIMADO", "DESESTIMADO", "ARCHIVADO", "NO_CLASIFICADO"}
NoResults == [k \in ResultKeys |-> 0]

PipelineIdle ==
  /\ pipeline = "None" /\ use_rules = FALSE /\ expedientes = <<>> /\ provider = <<>>
  /\ ppc = "idle" /\ idx = 0 /\ fetched = NoPdf /\ analysis_text = <<>>
  /\ stats = NoStats /\ results = NoResults /\ reclassified = 0

----------------------------------------------------------------------------
\* One ResolutionClassifier shared by several threads.

Threads == {"t1", "t2"}

\* What __init__ leaves on the instance: the compiled section patterns, by name,
\* and the compiled category patterns.
Compiled ==
  [_section_patterns_strict |-> <<"strict">>,
   _section_patterns_flexible |-> <<"flexible", "inline">>,
   _category_patterns |-> CategoryPatterns]

\* The locals of one call of classify.
NotCalled ==
  [pc |-> "idle", arg |-> <<>>, text |-> <<>>, section |-> NoSection, first_point |-> <<>>,
   result |-> NoResult]

ThreadsIdle == instance = Compiled /\ calls = [t \in Threads |-> NotCalled]

\* http_client.py: a CurlClient on which no request has been made.
NoRequest == [method |-> "none", start |-> 0, end |-> 0, outcome |-> "none"]
ClientIdle ==
  now = 0 /\ last_request_time = 0 /\ request = NoRequest /\ previous_end = <<>>

\* scraper.py: no call of scrape_expedientes.  A year of 0 stands for None.
NoYear == 0
ScraperIdle ==
  /\ site = <<>> /\ year_from = NoYear /\ year_to = NoYear /\ max_pages = 0
  /\ reverse = TRUE /\ spc = "idle" /\ pages = <<>> /\ page = -1
  /\ stop_early = FALSE /\ pages_processed = 0 /\ yielded = <<>> /\ parsed = {}

----------------------------------------------------------------------------
\* classify, one action per step.

Init ==
  /\ doc \in Docs
  /\ text = Render(doc)
  /\ pc = "start"
  /\ section = NoSection
  /\ first_point = <<>>
  /\ result = NoResult
  /\ NormalizerIdle
  /\ RulesIdle
  /\ PipelineIdle
  /\ ThreadsIdle
  /\ ClientIdle
  /\ ScraperIdle

\* text = self._normalize_text(text)
Normalize ==
  /\ pc = "start"
  /\ text' = NormalizeText(text)
  /\ pc' = "locate"
  /\ UNCHANGED <<doc, section, first_point, result>>
  /\ UNCHANGED outside

\* section_result = self._extract_resolution_section(text)
LocateSection ==
  /\ pc = "locate"
  /\ section' = ExtractResolutionSection(text)
  /\ pc' = IF section' = NoSection THEN "sentencia" ELSE "first_point"
  /\ UNCHANGED <<doc, text, first_point, result>>
  /\ UNCHANGED outside

\* first_point = self._extract_first_point(section_content)
FirstPoint ==
  /\ pc = "first_point"
  /\ first_point' = ExtractFirstPoint(section.content)
  /\ pc' = "scope_point"
  /\ UNCHANGED <<doc, text, section, result>>
  /\ UNCHANGED outside

\* One search of classify or _classify_fallback: return what it found, or go on.
Tier(here, found, next) ==
  /\ pc = here
  /\ IF found # NoResult
     THEN result' = found /\ pc' = "done"
     ELSE result' = result /\ pc' = next
  /\ UNCHANGED <<doc, text, section, first_point>>
  /\ UNCHANGED outside

\* The first loop of classify: the category patterns over the first point.
\* Faulty variant: the first loop searches the whole section.
ClassifyFirstPointInSection ==
  Tier("scope_point", FoundIn(MatchCategory(section.content), FirstPointConfianza, "", TRUE),
       "scope_section")
ClassifyFirstPoint ==
  Tier("scope_point", FoundIn(MatchCategory(first_point), FirstPointConfianza, "", TRUE),
       "scope_section")

\* The second loop of classify, over the whole section, and the final return.
\* Faulty variant: the final return reports that no section was found.
ClassifySectionNotFound ==
  /\ pc = "scope_section"
  /\ result' = OrElse(FoundIn(MatchCategory(section.content), "media", "", TRUE),
                      ClassificationResult("NO_CLASIFICADO", "baja", "",
                                           WordsOf(Prefix(first_point, TextoClaveLen)),
                                           FALSE))
  /\ pc' = "done"
  /\ UNCHANGED <<doc, text, section, first_point>>
  /\ UNCHANGED outside
ClassifySection ==
  /\ pc = "scope_section"
  /\ result' = OrElse(FoundIn(MatchCategory(section.content), SectionConfianza, "", TRUE),
                      ClassificationResult("NO_CLASIFICADO", "baja", "",
                                           WordsOf(Prefix(first_point, TextoClaveLen)),
                                           TRUE))
  /\ pc' = "done"
  /\ UNCHANGED <<doc, text, section, first_point>>
  /\ UNCHANGED outside

\* The tiers of _classify_fallback.
\* Faulty variant: the judicial tier never returns, the cascade always goes on.
FallbackSentenciaGoesOn == Tier("sentencia", NoResult, "last_part")
FallbackSentencia == Tier("sentencia", TierSentencia(text), "last_part")
FallbackLastPart == Tier("last_part", TierLastPart(text), "high_confidence")
FallbackHighConfidence == Tier("high_confidence", TierHighConfidence(text), "last_resort")

FallbackLastResort ==
  /\ pc = "last_resort"
  /\ result' = OrElse(TierLastResort(text), Unclassified)
  /\ pc' = "done"
  /\ UNCHANGED <<doc, text, section, first_point>>
  /\ UNCHANGED outside

Next ==
  \/ Normalize
  \/ LocateSection
  \/ FirstPoint
  \/ ClassifyFirstPoint
  \/ ClassifySection
  \/ FallbackSentencia
  \/ FallbackLastPart
  \/ FallbackHighConfidence
  \/ FallbackLastResort

Spec == Init /\ [][Next]_vars

\* A direct call of _normalize_text on a string.
ClassifierIdle ==
  /\ pc = "idle" /\ doc = <<>> /\ text = <<>> /\ section = NoSection
  /\ first_point = <<>> /\ result = NoResult

NormInit ==
  /\ raw \in Strings
  /\ normalized = NotNormalized
  /\ ClassifierIdle
  /\ RulesIdle
  /\ PipelineIdle
  /\ ThreadsIdle
  /\ ClientIdle
  /\ ScraperIdle

NormalizeCall ==
  /\ ~normalized.done
  /\ normalized' = [done |-> TRUE, value |-> NormalizeString(raw)]
  /\ UNCHANGED <<raw, cvars, rvars, pvars, tvars, xvars>>

NormNext == NormalizeCall

NormSpec == NormInit /\ [][NormNext]_vars

\* The rule classifier: construction, classify and classify_with_details.
RuleBlockNames ==
  { "R_DES_TOTAL", "R_EST_TOTAL", "R_NO_EST", "R_PARCIAL", "R_FALLO_DES", "R_FALLO_EST",
    "R_ARCH", "R_EXP", "R_TITLE", "R_DES", "NOTA" }
MaxRuleBlocks == 2
RuleDocs == UNION { [1..k -> RuleBlockNames] : k \in 0..MaxRuleBlocks }

\* Rule lists a caller may own: sub-lists of the declared rules, in some order.
CallerLists ==
  { <<>>,
    <<DEFAULT_RULES[4], DEFAULT_RULES[5], DEFAULT_RULES[6], DEFAULT_RULES[2]>>,
    <<DEFAULT_RULES[7], DEFAULT_RULES[3], DEFAULT_RULES[1]>> }

RuleInit ==
  /\ default_rules = DEFAULT_RULES
  /\ caller_rules \in CallerLists
  /\ self_rules = NoInstance
  /\ rule_text \in {Render(d) : d \in RuleDocs}
  /\ rule_call = NoCall
  /\ ClassifierIdle
  /\ NormalizerIdle
  /\ PipelineIdle
  /\ ThreadsIdle
  /\ ClientIdle
  /\ ScraperIdle

\* The list self.rules refers to.
Rules ==
  IF self_rules = "caller" THEN caller_rules ELSE default_rules

\* RuleBasedClassifier(rules): rules is None, or the list of the caller.
\* self.rules = rules or DEFAULT_RULES binds self.rules to one of the two list
\* objects, and list.sort sorts that object in place.
Constructed(given) ==
  /\ self_rules = NoInstance
  /\ self_rules' = IF given /\ caller_rules # <<>> THEN "caller" ELSE "DEFAULT_RULES"
  /\ IF self_rules' = "caller"
     THEN caller_rules' = SortByPriority(caller_rules) /\ UNCHANGED default_rules
     ELSE default_rules' = SortByPriority(default_rules) /\ UNCHANGED caller_rules
  /\ UNCHANGED <<rule_text, rule_call>>

Construct(given) == Constructed(given) /\ UNCHANGED <<cvars, nvars, pvars, tvars, xvars>>

ConstructDefault == Construct(FALSE)
ConstructGiven == Construct(TRUE)

Classify ==
  /\ self_rules # NoInstance
  /\ rule_call' = [op |-> "classify", category |-> RuleClassify(Rules, rule_text),
                   matched_rules |-> <<>>]
  /\ UNCHANGED <<default_rules, caller_rules, self_rules, rule_text, cvars, nvars, pvars, tvars, xvars>>

ClassifyWithDetails ==
  /\ self_rules # NoInstance
  /\ rule_call' = [op |-> "classify_with_details",
                   category |-> RuleClassifyWithDetails(Rules, rule_text).category,
                   matched_rules |-> RuleClassifyWithDetails(Rules, rule_text).matched_rules]
  /\ UNCHANGED <<default_rules, caller_rules, self_rules, rule_text, cvars, nvars, pvars, tvars, xvars>>

RuleNext ==
  \/ ConstructDefault
  \/ ConstructGiven
  \/ Classify
  \/ ClassifyWithDetails

RuleSpec == RuleInit /\ [][RuleNext]_vars

----------------------------------------------------------------------------
\* The scripts: run_analysis of run_analysis.py and main of run_analysis_v3.py,
\* one action per stretch of the loop body between two branches.

MaxRecords == 2
Urls == {"None", "", "https://www.cnmc.es/resolucion.pdf"}
PriorResults == {"None", "DESESTIMADO"}

\* The texts the provider can return to run_analysis and to run_analysis_v3.
AnalysisDocs ==
  { <<"R_PARCIAL">>, <<"R_FALLO_DES">>, <<"RES_EST">>, <<"NOTA">>,
    <<"R_DES_TOTAL", "R_TITLE", "FILL", "FILL", "R_ARCH">> }
V3Docs ==
  { <<"RES_EST">>, <<"RES_NOTA", "P2_DES">>, <<"NOTA">>, <<"DES_SG">>, <<"RES_NOTA">> }
Provided(script) ==
  {NoPdf, Pdf(<<>>)}
    \cup {Pdf(Render(d)) : d \in IF script = "run_analysis" THEN AnalysisDocs ELSE V3Docs}

\* A record and what the provider returns for its URL; without a URL the
\* provider is never asked.
Inputs(script) ==
  {<<Expediente(u, r), NoPdf>> : u \in {v \in Urls : FalsyUrl(v)}, r \in PriorResults}
    \cup {<<Expediente(u, r), t>> : u \in {v \in Urls : ~FalsyUrl(v)},
                                    r \in PriorResults, t \in Provided(script)}

PipelineInit ==
  /\ pipeline \in {"run_analysis", "run_analysis_v3"}
  /\ use_rules \in IF pipeline = "run_analysis" THEN BOOLEAN ELSE {FALSE}
  /\ \E n \in 0..MaxRecords : \E f \in [1..n -> Inputs(pipeline)] :
        /\ expedientes = [k \in 1..n |-> f[k][1]]
        /\ provider = [k \in 1..n |-> f[k][2]]
  /\ ppc = "start" /\ idx = 0 /\ fetched = NoPdf /\ analysis_text = <<>>
  /\ stats = NoStats /\ results = NoResults /\ reclassified = 0
  /\ ClassifierIdle
  /\ NormalizerIdle
  /\ RulesIdle
  /\ ThreadsIdle
  /\ ClientIdle
  /\ ScraperIdle

elsewhere == <<cvars, nvars, tvars, xvars>>

\* continue
Continue == idx' = idx + 1 /\ ppc' = "loop"

\* run_analysis, up to the loop: the classifiers and the statistics.
\* RuleBasedClassifier() sorts DEFAULT_RULES.
Load ==
  /\ pipeline = "run_analysis" /\ ppc = "start"
  /\ IF use_rules THEN Constructed(FALSE) ELSE UNCHANGED rvars
  /\ stats' = [NoStats EXCEPT !.total = Len(expedientes)]
  /\ idx' = 1 /\ ppc' = "loop"
  /\ UNCHANGED <<pipeline, use_rules, expedientes, provider, fetched, analysis_text,
                 results, reclassified, elsewhere>>

\* if not exp.url_resolucion: continue
SkipNoUrl ==
  /\ pipeline = "run_analysis" /\ ppc = "loop" /\ idx <= Len(expedientes)
  /\ FalsyUrl(expedientes[idx].url_resolucion)
  /\ Continue
  /\ UNCHANGED <<pipeline, use_rules, expedientes, provider, fetched, analysis_text, stats,
                 results, reclassified, rvars, elsewhere>>

\* stats["con_pdf"] += 1; text = pdf_handler.extract_text_from_url(...)
Fetch ==
  /\ pipeline = "run_analysis" /\ ppc = "loop" /\ idx <= Len(expedientes)
  /\ ~FalsyUrl(expedientes[idx].url_resolucion)
  /\ stats' = [stats EXCEPT !.con_pdf = @ + 1]
  /\ fetched' = provider[idx]
  /\ ppc' = "fetched"
  /\ UNCHANGED <<pipeline, use_rules, expedientes, provider, idx, analysis_text,
                 results, reclassified, rvars, elsewhere>>

\* if not text: stats["errores"] += 1; continue
NoTextError ==
  /\ pipeline = "run_analysis" /\ ppc = "fetched"
  /\ FalsyText(fetched)
  /\ stats' = [stats EXCEPT !.errores = @ + 1]
  /\ Continue
  /\ UNCHANGED <<pipeline, use_rules, expedientes, provider, fetched, analysis_text,
                 results, reclassified, rvars, elsewhere>>

\* exp.texto_resolucion = text[:1000] ... analysis_text = fallo_text if fallo_text
\* else text; if rule_classifier:
TextoResolucionLen == 1000
Extracted ==
  /\ pipeline = "run_analysis" /\ ppc = "fetched"
  /\ ~FalsyText(fetched)
  /\ expedientes' = [expedientes EXCEPT
                       ![idx].texto_resolucion = Prefix(fetched.text, TextoResolucionLen)]
  /\ stats' = [stats EXCEPT !.analizados = @ + 1]
  /\ analysis_text' = AnalysisText(fetched.text, ExtractFalloSection(fetched.text))
  /\ ppc' = IF use_rules THEN "rules" ELSE "keywords"
  /\ UNCHANGED <<pipeline, use_rules, provider, idx, fetched, results, reclassified, rvars,
                 elsewhere>>

\* result = rule_classifier.classify(analysis_text); if result: ... continue
ByRules ==
  /\ pipeline = "run_analysis" /\ ppc = "rules"
  /\ IF RuleClassify(Rules, analysis_text) # "None"
     THEN /\ expedientes' = [expedientes EXCEPT ![idx].resultado_clasificado =
                                                  RuleClassify(Rules, analysis_text)]
          /\ stats' = [stats EXCEPT !.clasificados = @ + 1]
          /\ Continue
     ELSE /\ ppc' = "keywords"
          /\ UNCHANGED <<expedientes, stats, idx>>
  /\ UNCHANGED <<pipeline, use_rules, provider, fetched, analysis_text, results,
                 reclassified, rvars, elsewhere>>

\* result, keywords = keyword_classifier.classify(analysis_text): classify returns
\* one ClassificationResult, which is not iterable, so the assignment raises
\* TypeError and the statements after it are not reached; except Exception:
\* stats["errores"] += 1, and the loop goes on.
ByKeywords ==
  /\ pipeline = "run_analysis" /\ ppc = "keywords"
  /\ stats' = [stats EXCEPT !.errores = @ + 1]
  /\ Continue
  /\ UNCHANGED <<pipeline, use_rules, expedientes, provider, fetched, analysis_text,
                 results, reclassified, rvars, elsewhere>>

\* pdf_handler.close(); save_expedientes(...); return expedientes
Finish ==
  /\ pipeline = "run_analysis" /\ ppc = "loop" /\ idx > Len(expedientes)
  /\ ppc' = "end"
  /\ UNCHANGED <<pipeline, use_rules, expedientes, provider, idx, fetched, analysis_text,
                 stats, results, reclassified, rvars, elsewhere>>

\* main of run_analysis_v3, up to the loop.
V3Load ==
  /\ pipeline = "run_analysis_v3" /\ ppc = "start"
  /\ results' = NoResults /\ reclassified' = 0
  /\ idx' = 1 /\ ppc' = "loop"
  /\ UNCHANGED <<pipeline, use_rules, expedientes, provider, fetched, analysis_text, stats,
                 rvars, elsewhere>>

\* if not exp.get("url_resolucion"): continue
V3SkipNoUrl ==
  /\ pipeline = "run_analysis_v3" /\ ppc = "loop" /\ idx <= Len(expedientes)
  /\ FalsyUrl(expedientes[idx].url_resolucion)
  /\ Continue
  /\ UNCHANGED <<pipeline, use_rules, expedientes, provider, fetched, analysis_text, stats,
                 results, reclassified, rvars, elsewhere>>

\* text = pdf_handler.extract_text_from_url(exp["url_resolucion"])
V3Fetch ==
  /\ pipeline = "run_analysis_v3" /\ ppc = "loop" /\ idx <= Len(expedientes)
  /\ ~FalsyUrl(expedientes[idx].url_resolucion)
  /\ fetched' = provider[idx]
  /\ ppc' = "fetched"
  /\ UNCHANGED <<pipeline, use_rules, expedientes, provider, idx, analysis_text, stats,
                 results, reclassified, rvars, elsewhere>>

\* if not text: results["ERROR"] += 1; continue
V3NoTextError ==
  /\ pipeline = "run_analysis_v3" /\ ppc = "fetched"
  /\ FalsyText(fetched)
  /\ results' = [results EXCEPT !["ERROR"] = @ + 1]
  /\ Continue
  /\ UNCHANGED <<pipeline, use_rules, expedientes, provider, fetched, analysis_text, stats,
                 reclassified, rvars, elsewhere>>

\* f"texto:{result.texto_clave[:30]}": the key text and the number of its
\* characters that are kept.
KeywordLen == 30
TextoKeyword(texto_clave) == [label |-> "texto", of |-> texto_clave, chars |-> KeywordLen]

\* The record after the three assignments of run_analysis_v3.
Reclassified(exp, r) ==
  [exp EXCEPT !.resultado_clasificado = r.categoria,
              !.keywords_encontradas = <<TextoKeyword(r.texto_clave)>>,
              !.confianza = r.confianza]

\* result = classifier.classify(text) ... if old_result != new_result:
\* reclassified += 1
V3Classify ==
  /\ pipeline = "run_analysis_v3" /\ ppc = "fetched"
  /\ ~FalsyText(fetched)
  /\ expedientes' = [expedientes EXCEPT ![idx] = Reclassified(@, ClassifyV2(fetched.text))]
  /\ results' = [results EXCEPT ![expedientes'[idx].resultado_clasificado] = @ + 1]
  /\ reclassified' = IF expedientes[idx].resultado_clasificado
                          # expedientes'[idx].resultado_clasificado
                       THEN reclassified + 1 ELSE reclassified
  /\ Continue
  /\ UNCHANGED <<pipeline, use_rules, provider, fetched, analysis_text, stats, rvars,
                 elsewhere>>

\* pdf_handler.close() and the files written after the loop
V3Finish ==
  /\ pipeline = "run_analysis_v3" /\ ppc = "loop" /\ idx > Len(expedientes)
  /\ ppc' = "end"
  /\ UNCHANGED <<pipeline, use_rules, expedientes, provider, idx, fetched, analysis_text,
                 stats, results, reclassified, rvars, elsewhere>>

PipelineNext ==
  \/ Load
  \/ SkipNoUrl
  \/ Fetch
  \/ NoTextError
  \/ Extracted
  \/ ByRules
  \/ ByKeywords
  \/ Finish
  \/ V3Load
  \/ V3SkipNoUrl
  \/ V3Fetch
  \/ V3NoTextError
  \/ V3Classify
  \/ V3Finish

PipelineSpec == PipelineInit /\ [][PipelineNext]_vars

----------------------------------------------------------------------------
\* Calls of classify on one shared ResolutionClassifier, one thread each, their
\* steps interleaved in any order.  A step reads the attributes of the instance
\* and the locals of its own call.

CallDocs ==
  { <<"RES_EST">>, <<"RES_NOTA", "P2_DES">>, <<"NOTA">>, <<"DES_SG">>, <<"FALLO", "FILL">>,
    <<"PAGE", "RES_FLEX">> }

\* for pattern in patterns: for match in pattern.finditer(text), from pattern k on
RECURSIVE MatchesBy(_, _, _)
MatchesBy(patterns, s, k) ==
  IF k > Len(patterns) THEN <<>>
  ELSE FindIter(patterns[k], s, 1) \o MatchesBy(patterns, s, k + 1)

\* self._extract_resolution_section(text)
SectionBy(self, s) ==
  IF MatchesBy(self._section_patterns_strict, s, 1) # <<>>
  THEN CleanSection(LastByStart(MatchesBy(self._section_patterns_strict, s, 1)))
  ELSE IF MatchesBy(self._section_patterns_flexible, s, 1) # <<>>
       THEN CleanSection(LastByStart(MatchesBy(self._section_patterns_flexible, s, 1)))
  ELSE NoSection

\* for categoria, patterns in self._category_patterns.items(): ...
CategoryBy(self, s) == FirstMatch(self._category_patterns, s, 1)

\* return found, or go on at next
Found(c, found, next) ==
  IF found # NoResult THEN [c EXCEPT !.result = found, !.pc = "done"]
  ELSE [c EXCEPT !.pc = next]

\* The locals of a call after its next step.
Advance(c, self) ==
  CASE c.pc = "start" -> [c EXCEPT !.text = NormalizeText(c.text), !.pc = "locate"]
    [] c.pc = "locate" ->
         [c EXCEPT !.section = SectionBy(self, c.text),
                   !.pc = IF SectionBy(self, c.text) = NoSection THEN "sentencia"
                          ELSE "first_point"]
    [] c.pc = "first_point" ->
         [c EXCEPT !.first_point = ExtractFirstPoint(c.section.content),
                   !.pc = "scope_point"]
    [] c.pc = "scope_point" ->
         Found(c, FoundIn(CategoryBy(self, c.first_point), FirstPointConfianza, "", TRUE),
               "scope_section")
    [] c.pc = "scope_section" ->
         [c EXCEPT !.result =
                     OrElse(FoundIn(CategoryBy(self, c.section.content), SectionConfianza,
                                    "", TRUE),
                            ClassificationResult("NO_CLASIFICADO", "baja", "",
                                                 WordsOf(Prefix(c.first_point,
                                                                TextoClaveLen)), TRUE)),
                   !.pc = "done"]
    [] c.pc = "sentencia" ->
         Found(c, IF IsSentencia(c.text) /\ FalloText(c.text) # NoFallo
                  THEN FoundIn(CategoryBy(self, FalloText(c.text)), SentenciaConfianza,
                               "[SENTENCIA] ", FALSE)
                  ELSE NoResult, "last_part")
    [] c.pc = "last_part" ->
         Found(c, FoundIn(CategoryBy(self, LastPart(c.text)), "baja", "", FALSE),
               "high_confidence")
    [] c.pc = "high_confidence" -> Found(c, TierHighConfidence(c.text), "last_resort")
    [] c.pc = "last_resort" ->
         [c EXCEPT !.result = OrElse(TierLastResort(c.text), Unclassified), !.pc = "done"]

\* The attributes of the instance after a step of a call: classify and the
\* methods it calls assign to local variables only.
\* Faulty variant: a call that returns leaves an emptied pattern table behind.
SelfAfterConsumed(self, c) ==
  IF c.pc = "done" THEN [self EXCEPT !._category_patterns = <<>>] ELSE self
SelfAfter(self, c) == self

ThreadInit ==
  /\ instance = Compiled
  /\ calls = [t \in Threads |-> NotCalled]
  /\ ClassifierIdle
  /\ NormalizerIdle
  /\ RulesIdle
  /\ PipelineIdle
  /\ ClientIdle
  /\ ScraperIdle

\* Thread t calls classify(text) on the shared instance.
CallClassify(t) ==
  /\ calls[t].pc \in {"idle", "done"}
  /\ \E d \in CallDocs :
       calls' = [calls EXCEPT ![t] = [NotCalled EXCEPT !.pc = "start", !.arg = Render(d),
                                                      !.text = Render(d)]]
  /\ UNCHANGED <<instance, cvars, nvars, rvars, pvars, xvars>>

\* Thread t takes the next step of its call.
Step(t) ==
  /\ calls[t].pc \notin {"idle", "done"}
  /\ calls' = [calls EXCEPT ![t] = Advance(calls[t], instance)]
  /\ instance' = SelfAfter(instance, calls'[t])
  /\ UNCHANGED <<cvars, nvars, rvars, pvars, xvars>>

ThreadNext == \E t \in Threads : CallClassify(t) \/ Step(t)

ThreadSpec == ThreadInit /\ [][ThreadNext]_vars

----------------------------------------------------------------------------
\* http_client.py: one CurlClient, its calls made one after the other.  Time is
\* counted in seconds.

\* REQUEST_DELAY, and the margin subprocess.run allows beyond --max-time.
Delay == 2
Grace == 5
\* self.timeout, the clock at construction, and the end of the observation.
Timeout == 1
Epoch == 3
MaxTime == 16

\* How an attempt can end, and how long subprocess.run took: curl gave up by
\* --max-time at the latest, or subprocess.run raised TimeoutExpired after
\* timeout + 5 seconds, or it raised at once (curl could not be started).
Outcomes == {"ok", "failed", "timeout", "raised"}
Took(outcome) ==
  IF outcome = "timeout" THEN {Timeout + Grace}
  ELSE IF outcome = "raised" THEN {0}
  ELSE 0..Timeout

OtherIdle ==
  /\ ClassifierIdle /\ NormalizerIdle /\ RulesIdle /\ PipelineIdle /\ ThreadsIdle

HttpInit ==
  /\ now = Epoch
  /\ last_request_time = 0
  /\ request = NoRequest
  /\ previous_end = <<>>
  /\ OtherIdle
  /\ ScraperIdle

beyond_client == <<cvars, nvars, rvars, pvars, tvars, svars>>

\* _wait_for_rate_limit: the time at which it returns when called at time t.
WaitForRateLimit(t) ==
  IF t - last_request_time < Delay THEN t + (Delay - (t - last_request_time)) ELSE t

\* self.last_request_time = time.time() is the statement after subprocess.run:
\* it runs when subprocess.run returned, not when it raised.
LastRequestTime(outcome, ended) ==
  IF outcome \in {"ok", "failed"} THEN ended ELSE last_request_time

\* One call of get or get_binary, from the wait to the return.
Request(method) ==
  \E outcome \in Outcomes : \E took \in Took(outcome) :
    /\ WaitForRateLimit(now) + took <= MaxTime
    /\ now' = WaitForRateLimit(now) + took
    /\ last_request_time' = LastRequestTime(outcome, now')
    /\ previous_end' = IF request = NoRequest THEN <<>> ELSE <<request.end>>
    /\ request' = [method |-> method, start |-> WaitForRateLimit(now), end |-> now',
                   outcome |-> outcome]
    /\ UNCHANGED beyond_client

Get == Request("get")
GetBinary == Request("get_binary")

\* The caller does something else for a second.
Elapse ==
  /\ now < MaxTime
  /\ now' = now + 1
  /\ UNCHANGED <<last_request_time, request, previous_end, beyond_client>>

HttpNext == Get \/ GetBinary \/ Elapse

HttpSpec == HttpInit /\ [][HttpNext]_vars

----------------------------------------------------------------------------
\* scraper.py: one call of scrape_expedientes.  The site is a sequence of result
\* pages, page 0 first; a record is the year of its fecha, NoYear when it has
\* none; years are counted from a base year.

MaxSitePages == 2
MaxPageSize == 2
MaxYear == 3
Years == 1..MaxYear
ResultPages == UNION { [1..k -> Years \cup {NoYear}] : k \in 0..MaxPageSize }
Sites == UNION { [1..k -> ResultPages] : k \in 1..MaxSitePages }

ScrapeInit ==
  /\ site \in Sites
  /\ year_from \in Years \cup {NoYear}
  /\ year_to \in Years \cup {NoYear}
  /\ max_pages \in 0..MaxSitePages
  /\ reverse \in BOOLEAN
  /\ spc = "call"
  /\ pages = <<>>
  /\ page = -1
  /\ stop_early = FALSE
  /\ pages_processed = 0
  /\ yielded = <<>>
  /\ parsed = {}
  /\ OtherIdle
  /\ ClientIdle

beyond_scraper == <<cvars, nvars, rvars, pvars, tvars, hvars>>
arguments == <<site, year_from, year_to, max_pages, reverse>>

\* pages = range(total_pages - 1, -1, -1) if reverse else range(total_pages)
PageRange(total, backwards) ==
  [k \in 1..total |-> IF backwards THEN total - k ELSE k - 1]

\* The two filters on exp.fecha.year: TRUE when the record is yielded.
Kept(year) ==
  ~ /\ year # NoYear
    /\ \/ year_from # NoYear /\ year < year_from
       \/ year_to # NoYear /\ year > year_to

Yield(p, n) == [page |-> p, n |-> n, year |-> site[p + 1][n]]

\* The records of page p the inner loop yields, from the n-th on.
RECURSIVE YieldFrom(_, _)
YieldFrom(p, n) ==
  IF n > Len(site[p + 1]) THEN <<>>
  ELSE (IF Kept(site[p + 1][n]) THEN <<Yield(p, n)>> ELSE <<>>) \o YieldFrom(p, n + 1)

\* out_of_range_count after the inner loop over page p.
OutOfRangeCount(p) == Cardinality({n \in 1..Len(site[p + 1]) : ~Kept(site[p + 1][n])})

\* The first request, for page 0: the generator returns when it fails.
ScrapeCall ==
  /\ spc = "call"
  /\ \E ok \in BOOLEAN :
       IF ok THEN pages' = PageRange(Len(site), reverse) /\ spc' = "loop"
       ELSE pages' = pages /\ spc' = "end"
  /\ UNCHANGED <<arguments, page, stop_early, pages_processed, yielded, parsed,
                 beyond_scraper>>

\* if stop_early: break
StopEarly ==
  /\ spc = "loop" /\ pages # <<>> /\ stop_early
  /\ page' = Head(pages)
  /\ spc' = "end"
  /\ UNCHANGED <<arguments, pages, stop_early, pages_processed, yielded, parsed,
                 beyond_scraper>>

\* The request for the page fails: continue.
PageFails ==
  /\ spc = "loop" /\ pages # <<>> /\ ~stop_early
  /\ page' = Head(pages)
  /\ pages' = Tail(pages)
  /\ UNCHANGED <<arguments, spc, stop_early, pages_processed, yielded, parsed,
                 beyond_scraper>>

\* The page holds no record: continue.
PageEmpty ==
  /\ spc = "loop" /\ pages # <<>> /\ ~stop_early
  /\ site[Head(pages) + 1] = <<>>
  /\ page' = Head(pages)
  /\ pages' = Tail(pages)
  /\ parsed' = parsed \cup {page'}
  /\ UNCHANGED <<arguments, spc, stop_early, pages_processed, yielded, beyond_scraper>>

\* The page holds records: the rest of the loop body.
PageParsed ==
  /\ spc = "loop" /\ pages # <<>> /\ ~stop_early
  /\ site[Head(pages) + 1] # <<>>
  /\ page' = Head(pages)
  /\ pages' = Tail(pages)
  /\ parsed' = parsed \cup {page'}
  /\ yielded' = yielded \o YieldFrom(page', 1)
  /\ pages_processed' = pages_processed + 1
  /\ stop_early' = (reverse /\ year_from # NoYear
                      /\ OutOfRangeCount(page') = Len(site[page' + 1]))
  /\ spc' = IF max_pages # 0 /\ pages_processed' >= max_pages THEN "end" ELSE "loop"
  /\ UNCHANGED <<arguments, beyond_scraper>>

\* The range is used up.
Exhausted ==
  /\ spc = "loop" /\ pages = <<>>
  /\ spc' = "end"
  /\ UNCHANGED <<arguments, pages, page, stop_early, pages_processed, yielded, parsed,
                 beyond_scraper>>

ScrapeNext ==
  \/ ScrapeCall
  \/ StopEarly
  \/ PageFails
  \/ PageEmpty
  \/ PageParsed
  \/ Exhausted

ScrapeSpec == ScrapeInit /\ [][ScrapeNext]_vars

----------------------------------------------------------------------------
\* Properties.

Categorias == {"ESTIMADO", "DESESTIMADO", "ARCHIVADO", "NO_CLASIFICADO"}
Confianzas == {"alta", "media", "baja"}
Tags == {"", "[SENTENCIA] ", "[ÚLTIMO RECURSO] "}
Returned == pc = "done"

\* Blocks without a word of any category pattern and without a section title.
NeutralBlocks == {"NOTA", "FILL", "LONG", "SENT", "PAGE"}

\* Block b occurs in d, and every other block of d is b or one of others.
OnlyDecision(d, b, others) ==
  /\ \E i \in DOMAIN d : d[i] = b
  /\ \A i \in DOMAIN d : d[i] \in {b} \cup others

\* Some pattern of the category matches in s.
HasCategory(cat, s) ==
  \E k \in 1..Len(CategoryPatterns) :
    CategoryPatterns[k][1] = cat /\ PatternSearch(CategoryPatterns[k][2], s) # NoSpan

\* The positions of classify from which a step is defined.
Steps == {"start", "locate", "first_point", "scope_point", "scope_section", "sentencia",
          "last_part", "high_confidence", "last_resort"}

\* C1: for every input, the empty text included, classify is never stuck before
\* it returns, and the result it returns has its four fields set, with categoria
\* one of the four categories and confianza one of alta, media, baja.
C1_Total ==
  /\ ~Returned => (pc \in Steps /\ result = NoResult)
  /\ Returned =>
       /\ DOMAIN result = {"categoria", "confianza", "texto_clave", "seccion_encontrada"}
       /\ result.categoria \in Categorias
       /\ result.confianza \in Confianzas
       /\ result.texto_clave.tag \in Tags
       /\ result.seccion_encontrada \in BOOLEAN

C1_Witness == Returned /\ doc = <<>> /\ result.categoria = "NO_CLASIFICADO"

\* C2, as claimed: whenever the strict section pattern matches the text, the
\* confidence of the result is never baja.
C2_StrictNeverLow ==
  (Returned /\ StrictMatches(text) # <<>>) => result.confianza # "baja"

\* C2, amended: whenever the strict section pattern matches the text, the
\* confidence is baja only if no category pattern matches anywhere in the located
\* section, and the result is then NO_CLASIFICADO; every result with a category
\* has confianza alta or media.
C2_StrictLowOnlyUnclassified ==
  (Returned /\ StrictMatches(text) # <<>>) =>
     /\ result.seccion_encontrada
     /\ result.confianza = "baja" <=> result.categoria = "NO_CLASIFICADO"
     /\ result.confianza = "baja" => MatchCategory(section.content) = NoCategory

C2_Witness ==
  /\ Returned /\ StrictMatches(text) # <<>>
  /\ result.confianza = "baja" /\ result.categoria = "NO_CLASIFICADO"

\* C3: every result of a fallback path (no section located), the judicial tier
\* included, has confianza baja; in every result confianza alta or media implies
\* seccion_encontrada.
C3_FallbackAlwaysLow ==
  Returned =>
     /\ section = NoSection => result.confianza = "baja"
     /\ result.confianza \in {"alta", "media"} => result.seccion_encontrada

\* The first operative sub-point as the claim C4 defines it: the content from the
\* initial ordinal up to, and without, the second ordinal.
TrueFirstPoint(s) ==
  LET p == FirstFrom(s, 2, SecondOrdinals)
  IN Strip(SubSeq(s, 1, p - 1))

\* C4: confianza alta is returned only when the category phrase that matched lies
\* in the first operative sub-point of the located section, before the second
\* ordinal; a phrase found only in a later point never yields alta.
C4_HighOnlyInFirstSubPoint ==
  (Returned /\ result.confianza = "alta" /\ section.content # <<>>
     /\ section.content[1].w \in FirstOrdinals)
  => HasCategory(result.categoria, TrueFirstPoint(section.content))

\* C5: a document with two RESUELVE sections, the earlier saying "estimar el
\* recurso" and the later "desestimar el recurso", is DESESTIMADO, with or
\* without a closing sentinel between the two sections.
TwoSections(d) ==
  /\ Len(d) \in {2, 3}
  /\ d[1] = "RES_EST" /\ d[Len(d)] = "RES_DES"
  /\ Len(d) = 3 => d[2] = "SENT"

C5_LastSectionWins ==
  (Returned /\ TwoSections(doc)) => result.categoria = "DESESTIMADO"

\* The text the category patterns are searched in first: the located section,
\* or the last LastPartLen characters when there is none.
SearchedScope == IF section # NoSection THEN section.content ELSE LastPart(text)

\* C6, as claimed: a text whose only decision phrase is "confirmar la denegación
\* de acceso a la red" is DESESTIMADO, and one whose only decision phrase is
\* "anular la resolución impugnada y reconocer el derecho de la reclamante" is
\* ESTIMADO.
C6_PolarityTraps ==
  Returned =>
     /\ OnlyDecision(doc, "CONF", NeutralBlocks \cup {"RES_NOTA"})
          => result.categoria = "DESESTIMADO"
     /\ OnlyDecision(doc, "ANUL", NeutralBlocks \cup {"RES_NOTA"})
          => result.categoria = "ESTIMADO"

\* C6, amended: such a text is DESESTIMADO (ESTIMADO for the second phrase)
\* provided the phrase lies in the located section or, when no section is
\* located, in the last 3000 characters of the text; in any case the first phrase
\* is never classified ESTIMADO and the second never DESESTIMADO.
C6_PolarityTrapsInScope ==
  Returned =>
     /\ OnlyDecision(doc, "CONF", NeutralBlocks \cup {"RES_NOTA"}) =>
          /\ result.categoria # "ESTIMADO"
          /\ PhraseSearch(SearchedScope, P95) # NoSpan => result.categoria = "DESESTIMADO"
     /\ OnlyDecision(doc, "ANUL", NeutralBlocks \cup {"RES_NOTA"}) =>
          /\ result.categoria # "DESESTIMADO"
          /\ (PhraseSearch(SearchedScope, P124) # NoSpan
                /\ PhraseSearch(SearchedScope, P119) # NoSpan)
             => result.categoria = "ESTIMADO"

C6_Witness ==
  /\ Returned /\ doc = <<"CONF">> /\ result.categoria = "DESESTIMADO"
  /\ PhraseSearch(SearchedScope, P95) # NoSpan

\* C7: "se desestima el conflicto" and "se desestiman los conflictos" are both
\* DESESTIMADO; the ESTIMADO patterns never win inside a form of desestimar.
C7_PluralSingular ==
  (Returned /\ doc \in {<<"DES_SG">>, <<"DES_PL">>}) => result.categoria = "DESESTIMADO"

\* C8: when the first point of a located section holds both an archival phrase
\* and a denial phrase, the result is ARCHIVADO with confianza alta, whichever
\* phrase comes first in the text.
C8_GroupPrecedence ==
  (Returned /\ section # NoSection /\ HasCategory("ARCHIVADO", first_point)
     /\ HasCategory("DESESTIMADO", first_point))
  => (result.categoria = "ARCHIVADO" /\ result.confianza = "alta")

C8_Witness ==
  /\ Returned /\ section # NoSection /\ result.categoria = "ARCHIVADO"
  /\ PatternSearch("50", first_point) # NoSpan
  /\ PatternSearch("84", first_point) # NoSpan
  /\ PatternSearch("84", first_point)[1] < PatternSearch("50", first_point)[1]

\* C9, as claimed: a document without a section that has "FALLAMOS:" followed by
\* a verdict with "estimamos el recurso", and no archival or denial phrase, is
\* ESTIMADO by the judicial tier: texto_clave starts with "[SENTENCIA] " and
\* seccion_encontrada is false.
JudicialEstimado ==
  /\ result.categoria = "ESTIMADO"
  /\ result.texto_clave.tag = "[SENTENCIA] "
  /\ ~result.seccion_encontrada

C9_JudicialTier ==
  (Returned /\ OnlyDecision(doc, "FALLO", NeutralBlocks)) => JudicialEstimado

\* C9, amended: the same holds provided the verdict text, from the word after
\* "FALLAMOS:" to the first sentinel at least 50 characters in or to the end of
\* the document, is 50 to 1500 characters long and holds the phrase.
C9_JudicialTierBounded ==
  (Returned /\ OnlyDecision(doc, "FALLO", NeutralBlocks)
     /\ FalloText(text) # NoFallo
     /\ Chars(FalloText(text)) >= FalloMin /\ Chars(FalloText(text)) <= FalloMax
     /\ PatternSearch("106", FalloText(text)) # NoSpan)
  => JudicialEstimado

C9_Witness ==
  /\ Returned /\ doc = <<"FALLO", "FILL">> /\ JudicialEstimado
  /\ Chars(FalloText(text)) >= FalloMin

\* C10: when no section is located and no tier of the fallback cascade matches
\* (so for every document without section title and category word), the result
\* is exactly NO_CLASIFICADO, baja, empty texto_clave, seccion_encontrada false.
C10_Exhausted ==
  (Returned
     /\ \/ \A i \in DOMAIN doc : doc[i] \in NeutralBlocks
        \/ /\ section = NoSection
           /\ TierSentencia(text) = NoResult /\ TierLastPart(text) = NoResult
           /\ TierHighConfidence(text) = NoResult /\ TierLastResort(text) = NoResult)
  => result = [categoria |-> "NO_CLASIFICADO", confianza |-> "baja",
               texto_clave |-> [tag |-> "", words |-> <<>>],
               seccion_encontrada |-> FALSE]

C10_Witness ==
  /\ Returned /\ doc = <<"NOTA", "SENT", "LONG">>
  /\ result.categoria = "NO_CLASIFICADO" /\ result.texto_clave.words = <<>>

\* C11: every result with categoria NO_CLASIFICADO has confianza baja and an empty
\* texto_clave, on every path, the one where a section was located but no pattern
\* matched in it included.
C11_UnclassifiedIsEmpty ==
  (Returned /\ result.categoria = "NO_CLASIFICADO")
  => (result.confianza = "baja" /\ result.texto_clave = NoText)

\* C12: seccion_encontrada is true exactly when the locator returned a section;
\* the fallback runs only when it returned none, so a located section without a
\* category phrase gives NO_CLASIFICADO with seccion_encontrada true even when a
\* category phrase stands elsewhere in the document.
C12_SectionFoundIffLocated ==
  /\ pc \in {"sentencia", "last_part", "high_confidence", "last_resort"}
       => section = NoSection
  /\ Returned =>
       /\ result.seccion_encontrada <=> section # NoSection
       /\ (section # NoSection /\ MatchCategory(section.content) = NoCategory)
            => result.categoria = "NO_CLASIFICADO"

C12_Witness ==
  /\ Returned /\ doc = <<"CONF", "RES_NOTA">>
  /\ MatchCategory(text) # NoCategory
  /\ result.categoria = "NO_CLASIFICADO" /\ result.seccion_encontrada

\* C20: for a section content that begins with an initial ordinal, the first
\* point extracted is exactly the text from that ordinal up to, and without, the
\* next second ordinal, or up to the end of the content when there is none: it
\* never ends at an ordinary continuation line and never holds text of the
\* second point.
FirstPointExtracted ==
  pc \in {"scope_point", "scope_section"} \/ (Returned /\ section # NoSection)

C20_FirstPointExact ==
  (FirstPointExtracted /\ section.content # <<>>
     /\ section.content[1].w \in FirstOrdinals)
  => first_point = TrueFirstPoint(section.content)

\* C18.  A string has a typographic character, a run of two horizontal white
\* space characters, a run of three line breaks.
Typographic == Dashes \cup DoubleQuotes \cup SingleQuotes \cup {Ellipsis}
HasTypographic(s) == \E i \in 1..Len(s) : s[i] \in Typographic
HasHorizontalRun(s) ==
  \E i \in 1..Len(s) - 1 : s[i] \in Horizontal /\ s[i+1] \in Horizontal
HasBreakRun(s) ==
  \E i \in 1..Len(s) - 2 : s[i] = "\n" /\ s[i+1] = "\n" /\ s[i+2] = "\n"
LeadingDigit(s) == s # <<>> /\ s[1] \in Digit
OutputClean(s) == ~HasTypographic(s) /\ ~HasHorizontalRun(s) /\ ~HasBreakRun(s)

\* C18, as claimed: the output of _normalize_text has no typographic dash, quote,
\* guillemet or ellipsis, no run of two or more horizontal white space characters
\* and no run of three or more line breaks; an input with none of these and
\* without leading digits is returned unchanged.
C18_NormalizedOutput ==
  normalized.done =>
     /\ OutputClean(normalized.value)
     /\ (OutputClean(raw) /\ ~LeadingDigit(raw)) => normalized.value = raw

\* C18, amended: the same, the input returned unchanged being one whose
\* horizontal white space is, besides, made of blanks only.
C18_NormalizedOutputBlanks ==
  normalized.done =>
     /\ OutputClean(normalized.value)
     /\ (OutputClean(raw) /\ ~LeadingDigit(raw)
           /\ \A i \in 1..Len(raw) : raw[i] \in Horizontal => raw[i] = " ")
        => normalized.value = raw

C18_Witness ==
  /\ normalized.done /\ raw = <<"a", " ", "\n">> /\ normalized.value = raw

\* The rule list, in the order of its declaration, that self.rules was bound to.
DeclaredRules ==
  CHOOSE d \in CallerLists \cup {DEFAULT_RULES} :
    {d[i] : i \in DOMAIN d} = {Rules[i] : i \in DOMAIN Rules}

\* The positive pattern of the rule is found in the text and none of its
\* negative patterns is.
Applies(r, s) ==
  /\ PatternFound(r.pattern, s)
  /\ \A k \in DOMAIN r.negative_patterns : ~PatternFound(r.negative_patterns[k], s)

\* Rule i of the declared list comes before rule j in the evaluation order.
Before(d, i, j) ==
  d[i].priority > d[j].priority \/ (d[i].priority = d[j].priority /\ i < j)

\* C13: classify returns the category of the matching rule that comes first by
\* descending priority, ties in declaration order, a rule matching iff its
\* positive pattern is found and none of its negative patterns is; it returns
\* None when no rule matches.
C13_FirstMatchByPriority ==
  rule_call.op = "classify" =>
     /\ \A i \in DOMAIN DeclaredRules :
          (Applies(DeclaredRules[i], rule_text)
             /\ \A j \in DOMAIN DeclaredRules :
                  (j # i /\ Applies(DeclaredRules[j], rule_text))
                    => Before(DeclaredRules, i, j))
          => rule_call.category = DeclaredRules[i].category
     /\ (\A i \in DOMAIN DeclaredRules : ~Applies(DeclaredRules[i], rule_text))
          => rule_call.category = "None"

C13_Witness ==
  /\ rule_call.op = "classify" /\ self_rules = "DEFAULT_RULES"
  /\ rule_text = Render(<<"R_PARCIAL", "R_FALLO_EST">>)
  /\ Applies(DEFAULT_RULES[4], rule_text) /\ Applies(DEFAULT_RULES[5], rule_text)
  /\ rule_call.category = "ESTIMADO"

\* The names of the rules of rs, from position i on, that apply to s.
RECURSIVE NamesApplying(_, _, _)
NamesApplying(rs, s, i) ==
  IF i > Len(rs) THEN <<>>
  ELSE (IF Applies(rs[i], s) THEN <<rs[i].name>> ELSE <<>>) \o NamesApplying(rs, s, i + 1)

\* C14: classify_with_details returns the category classify returns for the same
\* text, with the names of all the rules that match, in evaluation order; the
\* list is empty iff the category is None.
C14_DetailsAgreeWithClassify ==
  rule_call.op = "classify_with_details" =>
     /\ rule_call.category = RuleClassify(Rules, rule_text)
     /\ rule_call.matched_rules = NamesApplying(Rules, rule_text, 1)
     /\ rule_call.matched_rules = <<>> <=> rule_call.category = "None"

C14_Witness ==
  /\ rule_call.op = "classify_with_details"
  /\ rule_call.category = "DESESTIMADO"
  /\ rule_call.matched_rules = <<"desestimacion_fallo", "archivo_actuaciones">>

\* C15: after run_analysis with the default rules has processed any records, the
\* resultado_clasificado of every record is unset or one of ESTIMADO, DESESTIMADO,
\* ARCHIVADO, NO_CLASIFICADO; ESTIMADO_PARCIAL is never stored.
C15_StoredCategoriesClosed ==
  pipeline = "run_analysis" /\ use_rules =>
    \A k \in 1..Len(expedientes) :
      expedientes[k].resultado_clasificado \in Categorias \cup {"None"}

\* C16: in run_analysis, when the rule engine returns no category for the text
\* of a record, the record gets the category that ResolutionClassifier.classify
\* returns for it, and the record is counted as classified or as unclassified,
\* not as an error.
InVocabulary(s) == \A i \in 1..Len(s) : s[i].w \in Vocabulary
C16_FallsBackToClassifier ==
  [][use_rules /\ ByKeywords =>
       /\ InVocabulary(analysis_text) =>
            expedientes'[idx].resultado_clasificado = ClassifyText(analysis_text).categoria
       /\ stats'.errores = stats.errores
       /\ stats'.clasificados + stats'.no_clasificados
            = stats.clasificados + stats.no_clasificados + 1]_vars

\* C17: in both scripts no classifier is called for a record that has no
\* resolution URL or for whose URL the provider returned None or an empty text,
\* and no step changes such a record.
HasUrlAndText(k) ==
  /\ expedientes[k].url_resolucion \notin {"None", ""}
  /\ provider[k].ok /\ provider[k].text # <<>>
CallsClassifier == ByRules \/ ByKeywords \/ V3Classify
C17_NoClassifierWithoutText ==
  [][/\ CallsClassifier => HasUrlAndText(idx)
     /\ \A k \in 1..Len(expedientes) :
          ~HasUrlAndText(k) => expedientes'[k] = expedientes[k]]_vars
\* run_analysis_v3 has finished: it passed over a record without URL and over one
\* with an empty text, and both are as they were.
C17_Witness ==
  /\ pipeline = "run_analysis_v3" /\ ppc = "end" /\ Len(expedientes) = 2
  /\ expedientes[1] = Expediente("", "DESESTIMADO")
  /\ provider[2] = Pdf(<<>>) /\ results["ERROR"] = 1
  /\ expedientes[2] = Expediente("https://www.cnmc.es/resolucion.pdf", "None")

C28_AnalysedAreCounted ==
  pipeline = "run_analysis" /\ ppc = "end" =>
    stats.analizados = stats.clasificados + stats.no_clasificados

\* C29: constructing a RuleBasedClassifier changes neither the order of the list
\* the caller passed nor the order of the module-level DEFAULT_RULES.
C29_ConstructionKeepsOrder ==
  [][(ConstructDefault \/ ConstructGiven) =>
       caller_rules' = caller_rules /\ default_rules' = default_rules]_vars

\* C30: a RuleBasedClassifier constructed with a rule list uses exactly that
\* list; constructed with the empty list it has no rules, so classify returns
\* None and classify_with_details returns (None, []) for every text.
C30_GivenListIsUsed ==
  [][ConstructGiven =>
       /\ self_rules' = "caller"
       /\ caller_rules = <<>> =>
            /\ RuleClassify(Rules', rule_text) = "None"
            /\ RuleClassifyWithDetails(Rules', rule_text)
                 = [category |-> "None", matched_rules |-> <<>>]]_vars

\* C21: a judicial document without ACUERDA/RESUELVE section whose FALLAMOS
\* verdict dismisses the appeal with the root DESESTIMAR (desestimamos el
\* recurso) is classified DESESTIMADO by the fallback, never ESTIMADO.
JudicialDismissal(d) ==
  /\ \E k \in 1..Len(d) : d[k] = "FALLO_DES"
  /\ \A k \in 1..Len(d) : d[k] \in {"FALLO_DES", "FILL", "NOTA"}
C21_DismissalIsDesestimado ==
  pc = "done" /\ section = NoSection /\ JudicialDismissal(doc) =>
    result.categoria = "DESESTIMADO"

\* C22: when the text has a strict match, _extract_resolution_section returns
\* the strict match with the largest start, never a flexible one, even when a
\* section that only a flexible pattern matches starts later; when there is no
\* strict match it returns the flexible match with the largest start, over both
\* flexible patterns; it returns None only when neither tier has a match.
LastOf(ms, r) ==
  \E k \in 1..Len(ms) :
    r = CleanSection(ms[k]) /\ \A j \in 1..Len(ms) : ms[j].start <= ms[k].start
Cascade(r, strict, flexible) ==
  /\ strict # <<>> => LastOf(strict, r)
  /\ strict = <<>> /\ flexible # <<>> => LastOf(flexible, r)
  /\ r = NoSection <=> strict = <<>> /\ flexible = <<>>
C22_StrictOverFlexible ==
  pc \notin {"start", "locate"} =>
    /\ Cascade(section, StrictMatches(text), FlexibleMatches(text))
    /\ Cascade(ExtractResolutionSectionV2(text), StrictMatches(text),
               FindIter("flexible", text, 1))
\* A strict section, closed by its sentinel, and after it a section that only
\* the flexible pattern matches: the strict one was returned.
LaterFlexible(strict, flexible) ==
  \E k \in 1..Len(flexible) : \A j \in 1..Len(strict) : flexible[k].start > strict[j].start
C22_Witness ==
  /\ pc = "first_point"
  /\ Len(StrictMatches(text)) = 1
  /\ LaterFlexible(StrictMatches(text), FlexibleMatches(text))
  /\ section = CleanSection(StrictMatches(text)[1])

\* C23: when a category pattern matches inside the first point, classify returns
\* that category with confianza alta, even when a category of higher precedence
\* matches elsewhere in the section; the whole section is searched, with
\* confianza media, only when no pattern matches in the first point.
C23_ScopeBeforeGroup ==
  pc = "done" /\ section # NoSection =>
    /\ MatchCategory(first_point) # NoCategory =>
         /\ result.categoria = MatchCategory(first_point).categoria
         /\ result.confianza = "alta"
    /\ result.confianza = "media" =>
         /\ MatchCategory(first_point) = NoCategory
         /\ result.categoria = MatchCategory(section.content).categoria
\* The first point estimates, the section also holds archivar las actuaciones,
\* which ARCHIVADO, first in the table, matches: the result is ESTIMADO, alta.
C23_Witness ==
  /\ pc = "done" /\ section # NoSection
  /\ MatchCategory(first_point).categoria = "ESTIMADO"
  /\ MatchCategory(section.content).categoria = "ARCHIVADO"
  /\ result.categoria = "ESTIMADO" /\ result.confianza = "alta"

\* C24: with no section located, _classify_fallback consults the judicial FALLO
\* tier, then the last 3000 characters, then the high-confidence idioms, then
\* the bare verb stems: a tier is reached only when every earlier tier found
\* nothing, the call returns what the first matching tier found, and a match
\* of the last tier carries the [ULTIMO RECURSO] prefix.
NothingBefore(tier) ==
  /\ tier \in {"last_part", "high_confidence", "last_resort", "none"} =>
       TierSentencia(text) = NoResult
  /\ tier \in {"high_confidence", "last_resort", "none"} => TierLastPart(text) = NoResult
  /\ tier \in {"last_resort", "none"} => TierHighConfidence(text) = NoResult
  /\ tier = "none" => TierLastResort(text) = NoResult
ReturnedBy(r) ==
  \/ r = TierSentencia(text) /\ NothingBefore("sentencia")
  \/ r = TierLastPart(text) /\ NothingBefore("last_part")
  \/ r = TierHighConfidence(text) /\ NothingBefore("high_confidence")
  \/ /\ r = TierLastResort(text) /\ NothingBefore("last_resort")
     /\ r.texto_clave.tag = "[ÚLTIMO RECURSO] "
C24_TiersInOrder ==
  /\ pc \in {"sentencia", "last_part", "high_confidence", "last_resort"} =>
       section = NoSection /\ result = NoResult /\ NothingBefore(pc)
  /\ pc = "done" /\ section = NoSection =>
       \/ result # NoResult /\ ReturnedBy(result)
       \/ result = Unclassified /\ NothingBefore("none")
\* A call that only the last tier settles: the verb lies more than 3000
\* characters before the end and no idiom matches.
C24_Witness ==
  /\ pc = "done" /\ section = NoSection
  /\ result = TierLastResort(text) /\ result.texto_clave.tag = "[ÚLTIMO RECURSO] "
  /\ NothingBefore("last_resort")

\* C27: _normalize_text is idempotent: normalizing the text a call returned
\* gives that text again, also when the input begins with several
\* digit-only page-number lines.
C27_NormalizeIdempotent ==
  normalized.done => NormalizeString(normalized.value) = normalized.value

\* C25: on one CurlClient at least delay seconds pass between the end of a
\* request attempt, however it ended, and the start of the next attempt's curl.
C25_DelayAfterEveryAttempt ==
  previous_end # <<>> => request.start - previous_end[1] >= Delay

\* C26: with reverse=True and year_from set, scrape_expedientes stops early only
\* after a page whose records are all dated before year_from, a page excluded
\* for being after year_to does not stop it; every record in the year range on
\* a page that was fetched is yielded, and every yielded record that has a
\* date lies in the year range.
InYears(year) ==
  /\ year # NoYear
  /\ year_from # NoYear => year >= year_from
  /\ year_to # NoYear => year <= year_to
AllBefore(records) ==
  \A n \in 1..Len(records) : records[n] # NoYear /\ records[n] < year_from
C26_EarlyStopOnlyBeforeYearFrom ==
  reverse /\ year_from # NoYear =>
    /\ spc = "loop" /\ stop_early => AllBefore(site[page + 1])
    /\ \A k \in 1..Len(yielded) : yielded[k].year # NoYear => InYears(yielded[k].year)
    /\ \A p \in parsed : \A n \in 1..Len(site[p + 1]) :
         InYears(site[p + 1][n]) => \E k \in 1..Len(yielded) : yielded[k] = Yield(p, n)

====
